---- MODULE Spec2Model ----
(***************************************************************************)
(* A model of the Ark backup pipeline (pkg/backup: Backup, backupItem,     *)
(* executeActions, takePVSnapshot) and of the pod-volume-restore           *)
(* controller (pkg/controller/pod_volume_restore_controller.go).           *)
(*                                                                         *)
(* Spec       : one run of kubernetesBackupper.Backup over a small        *)
(*              cluster.                                                   *)
(* SpecPVR    : the pod-volume-restore controller reconciling one          *)
(*              PodVolumeRestore through informer events and its queue.    *)
(* SpecPVRFair: SpecPVR with the informer and the worker scheduled fairly. *)
(* SpecServer : server.run from start-up to shutdown, with its signal      *)
(*              handler and its watch of the Config object.                *)
(* SpecClock  : Spec with the clock running while the archive is written. *)
(* SpecRuns   : two Backup calls with the same arguments over a cluster    *)
(*              whose pods are listed in either order.                     *)
(* SpecRestic : one call of handleResticBackup for an annotated pod.       *)
(* SpecAzure  : the Azure loadConfigFromBytes applied to a credentials     *)
(*              file.                                                      *)
(* SpecCommand: one run of 'ark restic init-repository'.                   *)
(* SpecFair   : Spec with Backup's steps taken one after the other.        *)
(* SpecWatch  : server.run with no signal sent, the Config informer also   *)
(*              reporting updates that change nothing.                     *)
(* SpecLister : ListPlugins through the plugin lister's gRPC server and    *)
(*              client.                                                    *)
(***************************************************************************)
EXTENDS Integers, Sequences, FiniteSets, TLC

\* The number of injected failures (hook, action, Get, snapshot, tar write)
\* in one Backup run.
MaxFaults == 2

\* The number of pod add/update events the pod informer delivers.
MaxPodEvents == 1

\* The number of API calls (patches) of the controller that fail.
MaxApiFaults == 1

\* The deepest nesting of backupItem calls (backupItem -> executeActions ->
\* backupItem ...) the model follows.
MaxDepth == 4

\* The number of calls that fail in each of two runs that are compared.
MaxRunFaults == 1

\* The number of ticks of the clock while a backup runs.
MaxClock == 1

\* The number of SIGINT/SIGTERM signals sent to the server process.
MaxSignals == 2

\* The number of changes made to the Config object.
MaxConfigChanges == 2

(***************************************************************************)
(* The cluster that is backed up.                                          *)
(***************************************************************************)

\* kuberesource.Namespaces, PersistentVolumes and the other group-resources
Namespaces == "namespaces"

PersistentVolumes == "persistentvolumes"

Pods == "pods"

Deployments == "deployments.apps"

\* itemKey{resource, namespace, name}
Key(r, ns, n) == [resource |-> r, namespace |-> ns, name |-> n]

NoKey == Key("", "", "")

KeyNs1 == Key(Namespaces, "", "ns1")

KeyPv1 == Key(PersistentVolumes, "", "pv1")

KeyP1 == Key(Pods, "ns1", "p1")

KeyD1 == Key(Deployments, "ns2", "d1")

ClusterItems == {KeyNs1, KeyPv1, KeyP1, KeyD1}

\* discoveryHelper.Resources(): the API groups in priority order, each with
\* the resources it serves.
Groups == << <<Namespaces, PersistentVolumes, Pods>>, <<Deployments>> >>

\* A second pod of the namespace; it is in the cluster only in the runs that
\* compare listing orders.
KeyP2 == Key(Pods, "ns1", "p2")

ClusterScoped(r) == r \in {Namespaces, PersistentVolumes}

(***************************************************************************)
(* collections.IncludesExcludes                                            *)
(***************************************************************************)

IE(inc, exc) == [inc |-> inc, exc |-> exc]

ShouldInclude(ie, s) ==
    /\ s \notin ie.exc
    /\ (ie.inc = {} \/ "*" \in ie.inc \/ s \in ie.inc)

(***************************************************************************)
(* Errors: kubeerrs.NewAggregate, kubeerrs.Flatten                         *)
(***************************************************************************)

\* An error value: a leaf (what failed, for which item) or an aggregate.
Err(kind, key) == [agg |-> FALSE, kind |-> kind, key |-> key, errs |-> <<>>]

NilErr == Err("nil", NoKey)

NewAggregate(list) ==
    IF list = <<>> THEN NilErr
    ELSE [agg |-> TRUE, kind |-> "aggregate", key |-> NoKey, errs |-> list]

RECURSIVE Leaves(_)
\* The non-aggregate errors below e, in order.
Leaves(e) ==
    IF e = NilErr THEN <<>>
    ELSE IF ~e.agg THEN <<e>>
    ELSE LET RECURSIVE Cat(_)
             Cat(s) == IF s = <<>> THEN <<>> ELSE Leaves(Head(s)) \o Cat(Tail(s))
         IN Cat(e.errs)

\* Faulty variant, for comparison: only the top level's own errors are kept.
FlattenShallow(e) ==
    IF e = NilErr THEN NilErr
    ELSE NewAggregate(SelectSeq(e.errs, LAMBDA x : ~x.agg))

Flatten(e) == IF e = NilErr THEN NilErr ELSE NewAggregate(Leaves(e))

(***************************************************************************)
(* State                                                                   *)
(***************************************************************************)

VARIABLES
    backup,         \* api.Backup.Spec as resolved by Backup
    env,            \* the collaborators: snapshot service, item actions
    pc,             \* where kubernetesBackupper.Backup is
    groupIdx,       \* index of the group in discoveryHelper.Resources()
    itemIdx,        \* index of the item in the current group's listing
    groupErrs,      \* errors collected by the group backupper
    errs,           \* Backup's errs
    result,         \* what Backup returned
    stack,          \* the nested backupItem calls, innermost last
    backedUpItems,  \* backupContext.backedUpItems
    tar,            \* the entries written to the tar writer
    volumeBackups,  \* backup.Status.VolumeBackups
    log,            \* history: what was invoked, in order
    faults,         \* history: number of injected failures
    listing,        \* the pods as the dynamic client's List returns them
    first,          \* history: what an earlier Backup call with these arguments did
    now,            \* the clock that time.Now() reads
    resticPod,      \* handleResticBackup's pod: its volumes and annotation
    resticPc,       \* where handleResticBackup is
    volIdx,         \* index of the loop over backups
    resticErrs,     \* handleResticBackup's errs
    podAnnotations, \* its local map podAnnotations
    annotations,    \* the annotations of the unstructured pod
    resticResult,   \* what handleResticBackup returned
    iterations,     \* history: the volume and outcome of each iteration
    pvr,            \* the PodVolumeRestore held by the API server
    watch,          \* its versions the informer has not delivered yet
    cache,          \* the PodVolumeRestore held by the informer cache
    pod,            \* the pod held by the pod informer cache
    queue,          \* the controller's work queue
    worker,         \* the worker: idle, or inside processRestore with req
    writes,         \* history: the phase changes the controller patched
    runs,           \* history: number of restic restore runs
    podEvents,      \* history: number of pod events delivered
    restore,        \* history: the last processRestore call, its steps and outcome
    apiFaults,      \* history: number of failed API calls
    peer,           \* a second writer of the PodVolumeRestore
    srvpc,          \* where server.run is
    ctxDone,        \* whether s.ctx is cancelled
    sigs,           \* the signals buffered in handleShutdownSignals' channel
    sigHandler,     \* the goroutine of handleShutdownSignals
    signalsSent,    \* history: number of SIGINT/SIGTERM sent to the process
    apiConfig,      \* the Config object 'default' held by the API server
    originalConfig, \* run's originalConfig, as loadConfig returned it
    config,         \* run's config: the clone the defaults were applied to
    registered,     \* whether watchConfig's update handler is registered
    informer,       \* the Config shared informer
    events,         \* the update events the informer has not delivered yet
    controllers,    \* the controllers whose Run has not returned
    workers,        \* history: the workers each controller was started with
    objectStoreInit, \* the map ObjectStore.Init was called with
    blockStoreInit, \* the map BlockStore.Init was called with
    runResult,      \* what server.run returned
    cleaned,        \* whether pluginManager.CleanupClients was called
    contents,       \* the bytes given to the Azure loadConfigFromBytes
    loaded,         \* what loadConfigFromBytes returned, once it has
    options,        \* InitRepositoryOptions of 'ark restic init-repository'
    keyBytes,       \* its keyBytes
    cmdPc,          \* where the command is: Complete, Validate, Run
    cmdResult,      \* how the command ended
    repositoryKey,  \* the key stored for the namespace's restic repository
    impl,           \* the plugin lister behind the gRPC server: its answer
    response,       \* what the gRPC server's ListPlugins returned
    listed,         \* what the gRPC client's ListPlugins returned
    listerPc        \* where the ListPlugins call is: server, client, done

bvars == <<backup, env, pc, groupIdx, itemIdx, groupErrs, errs, result, stack,
           backedUpItems, tar, volumeBackups, log, faults, listing, first, now,
           resticPod, resticPc, volIdx, resticErrs, podAnnotations,
           annotations, resticResult, iterations>>

\* The state of handleResticBackup
hvars == <<resticPod, resticPc, volIdx, resticErrs, podAnnotations,
           annotations, resticResult, iterations>>

\* The part of the backup's state that is the environment's
rvars == <<listing, first, now>>

cvars == <<pvr, watch, cache, pod, queue, worker, writes, runs, podEvents,
           apiFaults, peer, restore>>

svars == <<srvpc, ctxDone, sigs, sigHandler, signalsSent, apiConfig,
           originalConfig, config, registered, informer, events, controllers,
           workers,
           objectStoreInit, blockStoreInit, runResult, cleaned>>

vars == <<backup, env, pc, groupIdx, itemIdx, groupErrs, errs, result, stack,
          backedUpItems, tar, volumeBackups, log, faults, listing, first, now,
          resticPod, resticPc, volIdx, resticErrs, podAnnotations,
          annotations, resticResult, iterations,
          pvr, watch, cache, pod, queue, worker, writes, runs, podEvents,
          restore,
          apiFaults, peer,
          srvpc, ctxDone, sigs, sigHandler, signalsSent, apiConfig,
          originalConfig, config, registered, informer, events, controllers,
          workers,
          objectStoreInit, blockStoreInit, runResult, cleaned,
          contents, loaded, options, keyBytes, cmdPc, cmdResult,
          repositoryKey, impl, response, listed, listerPc>>

\* The state of the Azure credentials loader and of the init-repository
\* command
uvars == <<contents, loaded, options, keyBytes, cmdPc, cmdResult,
           repositoryKey, impl, response, listed, listerPc>>

\* The state of a ListPlugins call through the gRPC server and client
lvars == <<impl, response, listed, listerPc>>

(***************************************************************************)
(* The backup run's inputs                                                 *)
(***************************************************************************)

\* The resolved item actions: the first applies to pods and names the pod's
\* volume and a deployment of another namespace as additional items, the
\* second applies to persistent volumes and names the pod again (a cycle).
\* fresh: Execute returns a new object as updatedItem; otherwise it changes
\* the object it was given and returns that.
ResolvedActions(fresh) ==
    << [resources |-> IE({Pods}, {}), namespaces |-> IE({}, {}),
        additional |-> <<KeyPv1, KeyD1>>, fresh |-> fresh],
       [resources |-> IE({PersistentVolumes}, {}), namespaces |-> IE({}, {}),
        additional |-> <<KeyP1>>, fresh |-> fresh] >>

\* spec.includeClusterResources and spec.snapshotVolumes are *bool
OptBool == {"nil", "true", "false"}

\* hooks says whether the label selectors of spec.hooks.resources are valid.
BackupSpecs ==
    [includeClusterResources : OptBool,
     namespaces : {IE({}, {}), IE({"*"}, {"ns2"})},
     resources : {IE({}, {}), IE({}, {PersistentVolumes})},
     snapshotVolumes : {"nil", "false"},
     hooks : {"valid"}]
       \cup {[includeClusterResources |-> "nil", namespaces |-> IE({}, {}),
               resources |-> IE({}, {}), snapshotVolumes |-> "nil",
               hooks |-> "invalid"]}

\* zoneLabel is the value of the persistent volume's label
\* failure-domain.beta.kubernetes.io/zone, "" when it has none; appliesTo
\* says whether every action's AppliesTo returns a selector that parses.
Envs ==
    [snapshotService : BOOLEAN, fresh : BOOLEAN, zoneLabel : {"us-east-1a"},
     appliesTo : {"ok"}]
       \cup {[snapshotService |-> TRUE, fresh |-> FALSE, zoneLabel |-> "",
               appliesTo |-> "ok"],
              [snapshotService |-> TRUE, fresh |-> FALSE,
               zoneLabel |-> "us-east-1a", appliesTo |-> "err"]}

actions == ResolvedActions(env.fresh)

\* The additional items action a names for the item: the pod action names
\* the first pod for the second one.
AdditionalItems(a, key) == IF key = KeyP2 THEN <<KeyP1>> ELSE a.additional

\* The dynamic client's List of one resource over all namespaces.
ListItems(r) ==
    CASE r = Namespaces -> <<KeyNs1>>
      [] r = PersistentVolumes -> <<KeyPv1>>
      [] r = Pods -> listing
      [] r = Deployments -> <<KeyD1>>
      [] OTHER -> <<>>

\* A volume name the pod has no volume for
NoVolume == "v9"

\* pod.Spec.Volumes by name: v2 is backed by a persistent volume claim.
PodVolumes == {"v1", "v2"}

VolumeNames == PodVolumes \cup {NoVolume}

\* The value of a snapshot annotation that is not set
NoSnapshot == 0

NoAnnotations == [v \in PodVolumes |-> NoSnapshot]

\* handleResticBackup is not running: a pod without the backup-volumes
\* annotation.
IdleRestic ==
    /\ resticPod = [kind |-> "empty", names |-> <<>>]
    /\ resticPc = "idle"
    /\ volIdx = 1
    /\ resticErrs = <<>>
    /\ podAnnotations = NoAnnotations
    /\ annotations = NoAnnotations
    /\ resticResult = NilErr
    /\ iterations = <<>>

\* No earlier call of Backup: events are the calls that failed and the
\* fetches that succeeded, entries the names and contents in the archive.
NoRun == [done |-> FALSE, events |-> {}, entries |-> {}]

\* The reading of the clock when Backup is called
StartTime == 0

\* An event of the history: op on the item key, n an index where one applies.
Event(op, key, n) == [op |-> op, key |-> key, n |-> n]

Logged(op, key) == \E i \in 1..Len(log) : log[i].op = op /\ log[i].key = key

Count(op, key, n) ==
    Cardinality({i \in 1..Len(log) :
                    log[i].op = op /\ log[i].key = key /\ log[i].n = n})

(***************************************************************************)
(* backupItem: the filters and the dedup check                             *)
(***************************************************************************)

\* Faulty variant, for comparison: the namespace predicate is not consulted.
NamespaceNeverExcluded(key) == FALSE

NamespaceExcluded(key) ==
    key.namespace # "" /\ ~ShouldInclude(backup.namespaces, key.namespace)

\* Faulty variant, for comparison: namespaces are not exempted from the cluster-scoped rule.
ClusterScopedExcludedAll(key) ==
    /\ key.namespace = ""
    /\ backup.includeClusterResources # "nil"
    /\ backup.includeClusterResources # "true"

ClusterScopedExcluded(key) ==
    /\ key.namespace = ""
    /\ key.resource # Namespaces
    /\ backup.includeClusterResources # "nil"
    /\ backup.includeClusterResources # "true"

ResourceExcluded(key) == ~ShouldInclude(backup.resources, key.resource)

\* Faulty variant, for comparison: the dedup check never finds the key.
NeverBackedUp(key) == FALSE

AlreadyBackedUp(key) == key \in backedUpItems

\* What the entry of backupItem decides for key.
EnterOutcome(key) ==
    IF NamespaceExcluded(key) THEN "skip_ns"
    ELSE IF ClusterScopedExcluded(key) THEN "skip_cluster"
    ELSE IF ResourceExcluded(key) THEN "skip_res"
    ELSE IF AlreadyBackedUp(key) THEN "skip_dup"
    ELSE "mark"

\* One backupItem call in progress.  bobj is the content of the object
\* backupItem's obj points to and cur the content of executeActions' obj,
\* each the set of actions whose update it carries; alias says whether the
\* two still are the same object.
Frame(key, fpc, rv) ==
    [key |-> key, pc |-> fpc, ai |-> 1, adds |-> <<>>, cur |-> {},
     alias |-> TRUE, bobj |-> {}, berrs |-> <<>>, rv |-> rv]

\* Faulty variant, for comparison: backupItem does not record the key before it runs
\* the hooks and actions.
EnterUnmarked(below, key) ==
    LET o == EnterOutcome(key) IN
    /\ Len(below) < MaxDepth
    /\ stack' = Append(below,
                       IF o = "mark" THEN Frame(key, "prehook", NilErr)
                       ELSE Frame(key, "return", NilErr))
    /\ backedUpItems' = backedUpItems
    /\ log' = Append(log, Event(o, key, Len(below) + 1))

\* backupItem(obj, groupResource) is called from below, the stack of the
\* calls in progress: lines 127-172.
Enter(below, key) ==
    LET o == EnterOutcome(key) IN
    /\ Len(below) < MaxDepth
    /\ stack' = Append(below,
                       IF o = "mark" THEN Frame(key, "prehook", NilErr)
                       ELSE Frame(key, "return", NilErr))
    /\ backedUpItems' = IF o = "mark" THEN backedUpItems \cup {key}
                        ELSE backedUpItems
    /\ log' = Append(log, Event(o, key, Len(below) + 1))

Top == stack[Len(stack)]

SetTop(f) == [stack EXCEPT ![Len(stack)] = f]

InItem(fpc) == pc = "walk" /\ stack # <<>> /\ Top.pc = fpc

\* A call of a collaborator that may fail: ok says whether it succeeded.
Outcome(ok) ==
    /\ ok \/ faults < MaxFaults
    /\ faults' = IF ok THEN faults ELSE faults + 1

(***************************************************************************)
(* backupItem: hooks, actions, snapshot, archive entry                     *)
(***************************************************************************)

\* Faulty variant, for comparison: a pre hook error is collected like the later errors of the item.
PreHookFailedGoesOn(f) ==
    [f EXCEPT !.pc = "actions",
              !.berrs = Append(f.berrs, Err("prehook_err", f.key))]

\* lines 175-177: the pre hook handler returned an error.
PreHookFailed(f) ==
    [f EXCEPT !.pc = "return", !.rv = Err("prehook_err", f.key)]

\* lines 174-177: the pre hooks; an error ends backupItem.
PreHooks ==
    /\ InItem("prehook")
    /\ \E ok \in BOOLEAN :
          /\ Outcome(ok)
          /\ log' = Append(log, Event(IF ok THEN "prehook" ELSE "prehook_err",
                                      Top.key, 0))
          /\ stack' = SetTop(IF ok THEN [Top EXCEPT !.pc = "actions"]
                             ELSE PreHookFailed(Top))
    /\ UNCHANGED <<backup, env, pc, groupIdx, itemIdx, groupErrs, errs, result,
                   backedUpItems, tar, volumeBackups>>
    /\ UNCHANGED <<rvars, hvars, cvars, svars, uvars>>

\* lines 238-251: whether the action applies to the item (the label selector
\* of every action here is labels.Everything()).
Applies(a, key) ==
    /\ ShouldInclude(a.resources, key.resource)
    /\ key.namespace = "" \/ ShouldInclude(a.namespaces, key.namespace)

\* The first applicable action at or after index i, 0 when there is none.
NextAction(key, i) ==
    LET S == {j \in i..Len(actions) : Applies(actions[j], key)}
    IN IF S = {} THEN 0 ELSE CHOOSE j \in S : \A k \in S : j <= k

\* Faulty variant, for comparison: backupItem writes the entry right after the actions.
ActionsDoneThenWrite(f, e) ==
    [f EXCEPT !.pc = IF e = NilErr THEN "write" ELSE "posthook",
              !.berrs = IF e = NilErr THEN f.berrs ELSE Append(f.berrs, e)]

\* executeActions returned e to backupItem: lines 180-184.
ActionsDone(f, e) ==
    [f EXCEPT !.pc = "snapshot",
              !.berrs = IF e = NilErr THEN f.berrs ELSE Append(f.berrs, e)]

\* line 260, obj = updatedItem: what executeActions' obj and backupItem's obj
\* hold after action n returned its updated item.
Updated(f, n) ==
    IF actions[n].fresh
    THEN [f EXCEPT !.cur = f.cur \cup {n}, !.alias = FALSE]
    ELSE [f EXCEPT !.cur = f.cur \cup {n},
                   !.bobj = IF f.alias THEN f.bobj \cup {n} ELSE f.bobj]

\* lines 237-260 and 282-289: the loop over the actions; Execute.
ExecuteAction ==
    /\ InItem("actions")
    /\ LET n == NextAction(Top.key, Top.ai) IN
       IF n = 0
       THEN /\ stack' = SetTop(ActionsDone(Top, NilErr))
            /\ UNCHANGED <<log, faults>>
       ELSE \E ok \in BOOLEAN :
              /\ Outcome(ok)
              /\ log' = Append(log, Event(IF ok THEN "action" ELSE "action_err",
                                          Top.key, n))
              /\ stack' = SetTop(
                    IF ok
                    THEN [Updated(Top, n) EXCEPT !.pc = "additional", !.ai = n,
                                                 !.adds = AdditionalItems(actions[n], Top.key)]
                    ELSE ActionsDone(Top, Err("action_err", Top.key)))
    /\ UNCHANGED <<backup, env, pc, groupIdx, itemIdx, groupErrs, errs, result,
                   backedUpItems, tar, volumeBackups>>
    /\ UNCHANGED <<rvars, hvars, cvars, svars, uvars>>

\* lines 262-281: the next additional item is resolved, fetched and backed up.
AdditionalItem ==
    /\ InItem("additional")
    /\ IF Top.adds = <<>>
       THEN /\ stack' = SetTop([Top EXCEPT !.pc = "actions", !.ai = Top.ai + 1])
            /\ UNCHANGED <<log, faults, backedUpItems>>
       ELSE \E ok \in BOOLEAN :
              /\ Outcome(ok)
              /\ IF ok
                 THEN Enter(SetTop([Top EXCEPT !.adds = Tail(Top.adds)]),
                            Head(Top.adds))
                 ELSE /\ stack' = SetTop(ActionsDone(Top, Err("get_err", Head(Top.adds))))
                      /\ log' = Append(log, Event("get_err", Head(Top.adds), 0))
                      /\ UNCHANGED backedUpItems
    /\ UNCHANGED <<backup, env, pc, groupIdx, itemIdx, groupErrs, errs, result,
                   tar, volumeBackups>>
    /\ UNCHANGED <<rvars, hvars, cvars, svars, uvars>>

\* lines 278-280: the additional item's backupItem returned.
AdditionalReturn ==
    /\ pc = "walk" /\ Len(stack) > 1 /\ Top.pc = "return"
    /\ LET caller == stack[Len(stack) - 1]
           rest == SubSeq(stack, 1, Len(stack) - 2)
       IN stack' = Append(rest, IF Top.rv = NilErr THEN caller
                                ELSE ActionsDone(caller, Top.rv))
    /\ UNCHANGED <<backup, env, pc, groupIdx, itemIdx, groupErrs, errs, result,
                   backedUpItems, tar, volumeBackups, log, faults>>
    /\ UNCHANGED <<rvars, hvars, cvars, svars, uvars>>

\* Faulty variant, for comparison: snapshots are taken only when snapshotVolumes is
\* set to true.
TakesSnapshotIfTrue(key) ==
    /\ key.resource = PersistentVolumes
    /\ env.snapshotService
    /\ backup.snapshotVolumes = "true"

\* Whether backupItem calls CreateSnapshot for the item: lines 186-194 and
\* takePVSnapshot's lines 443-446.
TakesSnapshot(key) ==
    /\ key.resource = PersistentVolumes
    /\ env.snapshotService
    /\ backup.snapshotVolumes # "false"

NoInfo == [snapshotID |-> 0, volumeType |-> "", iops |-> 0, zone |-> ""]

\* lines 453-461: the zone passed to the block store is the label's value.
pvFailureDomainZone == env.zoneLabel

\* What snapshotService.GetVolumeInfo returns for the volume
GetVolumeInfo == [volumeType |-> "gp2", iops |-> 100]

\* lines 497-502, api.VolumeBackupInfo of the snapshot with the given
\* identifier
VolumeBackupInfo(id) ==
    [snapshotID |-> id, volumeType |-> GetVolumeInfo.volumeType,
     iops |-> GetVolumeInfo.iops, zone |-> pvFailureDomainZone]

\* The number of CreateSnapshot calls for the persistent volume of that name.
CreateSnapshotCalls(name) ==
    Cardinality({i \in 1..Len(log) :
                    /\ log[i].op \in {"snapshot", "snapshot_err"}
                    /\ log[i].key.name = name})

\* Faulty variant, for comparison: the volume is recorded although CreateSnapshot failed.
SnapshotRecordedOnFailure(name, o) ==
    IF o \in {"ok", "snapshot_err"}
    THEN [volumeBackups EXCEPT ![name] = VolumeBackupInfo(CreateSnapshotCalls(name) + 1)]
    ELSE volumeBackups

\* Faulty variant, for comparison: the volume is recorded as soon as CreateSnapshot
\* returned, before GetVolumeInfo is called.
SnapshotRecordedBeforeInfo(name, o) ==
    IF o \in {"ok", "volinfo_err"}
    THEN [volumeBackups EXCEPT ![name] = VolumeBackupInfo(CreateSnapshotCalls(name) + 1)]
    ELSE volumeBackups

\* What takePVSnapshot leaves in backup.Status.VolumeBackups: lines 480-502.
\* o is how far it got.
SnapshotRecorded(name, o) ==
    IF o = "ok"
    THEN [volumeBackups EXCEPT ![name] = VolumeBackupInfo(CreateSnapshotCalls(name) + 1)]
    ELSE volumeBackups

\* lines 186-194 with takePVSnapshot, lines 440-505.
Snapshot ==
    /\ InItem("snapshot")
    /\ IF ~TakesSnapshot(Top.key)
       THEN /\ stack' = SetTop([Top EXCEPT !.pc = "posthook"])
            /\ UNCHANGED <<log, faults, volumeBackups>>
       ELSE \E o \in {"volid_err", "unsupported", "snapshot_err", "volinfo_err", "ok"} :
              /\ Outcome(o \in {"unsupported", "ok"})
              /\ log' = log \o
                    CASE o = "volid_err" -> <<Event("volid_err", Top.key, 0)>>
                      [] o = "unsupported" -> <<Event("unsupported", Top.key, 0)>>
                      [] o = "snapshot_err" -> <<Event("snapshot_err", Top.key, 0)>>
                      [] o = "volinfo_err" -> <<Event("snapshot", Top.key, 0),
                                                Event("volinfo_err", Top.key, 0)>>
                      [] o = "ok" -> <<Event("snapshot", Top.key, 0)>>
              /\ volumeBackups' = SnapshotRecorded(Top.key.name, o)
              /\ stack' = SetTop(
                    [Top EXCEPT !.pc = "posthook",
                                !.berrs = IF o \in {"unsupported", "ok"} THEN Top.berrs
                                          ELSE Append(Top.berrs, Err(o, Top.key))])
    /\ UNCHANGED <<backup, env, pc, groupIdx, itemIdx, groupErrs, errs, result,
                   backedUpItems, tar>>
    /\ UNCHANGED <<rvars, hvars, cvars, svars, uvars>>

\* lines 196-203: the post hooks, then the errors of the item so far.
PostHooks ==
    /\ InItem("posthook")
    /\ \E ok \in BOOLEAN :
          /\ Outcome(ok)
          /\ log' = Append(log, Event(IF ok THEN "posthook" ELSE "posthook_err",
                                      Top.key, 0))
          /\ LET be == IF ok THEN Top.berrs
                       ELSE Append(Top.berrs, Err("posthook_err", Top.key))
             IN stack' = SetTop(IF be = <<>> THEN [Top EXCEPT !.pc = "write"]
                                ELSE [Top EXCEPT !.pc = "return", !.berrs = be,
                                                 !.rv = NewAggregate(be)])
    /\ UNCHANGED <<backup, env, pc, groupIdx, itemIdx, groupErrs, errs, result,
                   backedUpItems, tar, volumeBackups>>
    /\ UNCHANGED <<rvars, hvars, cvars, svars, uvars>>

\* lines 205-210: the entry's name in the archive
FilePath(key) ==
    IF key.namespace # ""
    THEN <<"resources", key.resource, "namespaces", key.namespace, key.name>>
    ELSE <<"resources", key.resource, "cluster", key.name>>

\* line 212: the object backupItem serializes
Serialized(f) == f.bobj

RECURSIVE Marshal(_)
\* line 212, json.Marshal of the object's content: the braces around the
\* updates the object carries, in ascending order of their keys.
Marshal(obj) ==
    LET RECURSIVE Members(_)
        Members(S) == IF S = {} THEN <<>>
                      ELSE LET m == CHOOSE x \in S : \A y \in S : x <= y
                           IN <<m>> \o Members(S \ {m})
    IN <<"{">> \o Members(obj) \o <<"}">>

\* tar.TypeReg
TypeReg == "0"

\* line 221, Mode: 0755
EntryMode == 493

\* lines 217-223: the entry's header.
Header(path, itemBytes) ==
    [name |-> path, size |-> Len(itemBytes), typeflag |-> TypeReg,
     mode |-> EntryMode, modTime |-> now]

\* lines 212-233: marshal, WriteHeader, Write.
WriteEntry ==
    /\ InItem("write")
    /\ \E o \in {"ok", "marshal_err", "header_err", "body_err"} :
          /\ Outcome(o = "ok")
          /\ log' = Append(log, Event(IF o = "ok" THEN "write" ELSE o, Top.key, 0))
          /\ tar' = IF o \in {"ok", "body_err"}
                    THEN Append(tar, [name |-> FilePath(Top.key), key |-> Top.key,
                                      body |-> Serialized(Top),
                                      complete |-> (o = "ok"),
                                      hdr |-> Header(FilePath(Top.key),
                                                     Marshal(Serialized(Top))),
                                      bytes |-> IF o = "ok"
                                                THEN Marshal(Serialized(Top))
                                                ELSE <<>>])
                    ELSE tar
          /\ stack' = SetTop([Top EXCEPT
                                !.pc = "return",
                                !.rv = IF o = "ok" THEN NilErr ELSE Err(o, Top.key)])
    /\ UNCHANGED <<backup, env, pc, groupIdx, itemIdx, groupErrs, errs, result,
                   backedUpItems, volumeBackups>>
    /\ UNCHANGED <<rvars, hvars, cvars, svars, uvars>>

(***************************************************************************)
(* The group backupper: it walks the resources of a group and hands each   *)
(* listed item to backupItem.                                              *)
(***************************************************************************)

RECURSIVE Listing(_)
\* The items of the resources rs in listing order; a cluster-scoped resource
\* other than namespaces is left out when includeClusterResources is false.
Listing(rs) ==
    IF rs = <<>> THEN <<>>
    ELSE (IF /\ ClusterScoped(Head(rs))
             /\ Head(rs) # Namespaces
             /\ backup.includeClusterResources = "false"
          THEN <<>>
          ELSE ListItems(Head(rs))) \o Listing(Tail(rs))

GroupWork(g) == Listing(Groups[g])

\* The next listed item of the group is handed to backupItem.
WalkItem ==
    /\ pc = "walk" /\ stack = <<>>
    /\ itemIdx <= Len(GroupWork(groupIdx))
    /\ Enter(<<>>, GroupWork(groupIdx)[itemIdx])
    /\ UNCHANGED <<backup, env, pc, groupIdx, itemIdx, groupErrs, errs, result,
                   tar, volumeBackups, faults>>
    /\ UNCHANGED <<rvars, hvars, cvars, svars, uvars>>

\* The errors of a write to the archive
WriteErrors == {"header_err", "body_err"}

\* A failed write to the archive ends the walk of the group, any other
\* error of an item is recorded and the walk goes on.
WalkReturn ==
    /\ pc = "walk" /\ Len(stack) = 1 /\ Top.pc = "return"
    /\ stack' = <<>>
    /\ groupErrs' = IF Top.rv = NilErr THEN groupErrs
                    ELSE Append(groupErrs, Top.rv)
    /\ itemIdx' = IF Top.rv.kind \in WriteErrors THEN Len(GroupWork(groupIdx)) + 1
                  ELSE itemIdx + 1
    /\ UNCHANGED <<backup, env, pc, groupIdx, errs, result, backedUpItems, tar,
                   volumeBackups, log, faults>>
    /\ UNCHANGED <<rvars, hvars, cvars, svars, uvars>>

(***************************************************************************)
(* kubernetesBackupper.Backup                                              *)
(***************************************************************************)

\* Faulty variant, for comparison: the writers are closed in the order in which they
\* were opened.
ClosedInOpeningOrder == <<"gzippedData", "tw", "gzippedLog">>

\* lines 717-724: the deferred Close calls run when Backup returns, the
\* last deferred first: the log's gzip writer, the tar writer, the gzip
\* writer of the archive, which the tar writer writes to.
DeferredCloses == <<"gzippedLog", "tw", "gzippedData">>

\* The events of closing the writers
Closes ==
    [i \in 1..Len(DeferredCloses) |->
        Event("close", Key("writer", "", DeferredCloses[i]), 0)]

\* getResourceHooks, lines 672-712, and resolveActions, lines 613-643: the
\* error Backup returns at line 743 or 751, NilErr when both succeed.
ResolveError ==
    IF backup.hooks = "invalid" THEN Err("hooks_err", NoKey)
    ELSE IF env.appliesTo = "err" THEN Err("actions_err", NoKey)
    ELSE NilErr

\* Backup, lines 716-773: the writers, the includes and excludes, the
\* hooks and the actions; an error of getResourceHooks or resolveActions
\* is returned at once.
BackupStart ==
    /\ pc = "init"
    /\ IF ResolveError = NilErr
       THEN /\ pc' = "groups"
            /\ UNCHANGED <<result, log>>
       ELSE /\ pc' = "failed"
            /\ result' = ResolveError
            /\ log' = log \o Closes
    /\ UNCHANGED <<backup, env, groupIdx, itemIdx, groupErrs, errs, stack,
                   backedUpItems, tar, volumeBackups, faults>>
    /\ UNCHANGED <<rvars, hvars, cvars, svars, uvars>>

\* Faulty variant, for comparison: the loop ends at the first group that reported an error.
StopsAtError(g) == g <= Len(Groups) /\ errs = <<>>

\* Whether Backup's loop over the groups goes on to the group at index g.
Continues(g) == g <= Len(Groups)

\* lines 775-776: gb.backupGroup(group) is called for the next group.
BackupGroup ==
    /\ pc = "groups"
    /\ Continues(groupIdx)
    /\ pc' = "walk"
    /\ itemIdx' = 1
    /\ groupErrs' = <<>>
    /\ log' = Append(log, Event("group", NoKey, groupIdx))
    /\ UNCHANGED <<backup, env, groupIdx, errs, result, stack, backedUpItems, tar,
                   volumeBackups, faults>>
    /\ UNCHANGED <<rvars, hvars, cvars, svars, uvars>>

\* Faulty variant, for comparison: the loop steps over a group.
SkipsGroup(g) == g + 2

\* line 775: the range loop goes on to the next group of
\* discoveryHelper.Resources().
NextGroup(g) == g + 1

\* lines 776-778: backupGroup returned; its error, if any, is appended.
GroupReturn ==
    /\ pc = "walk" /\ stack = <<>>
    /\ itemIdx > Len(GroupWork(groupIdx))
    /\ errs' = IF groupErrs = <<>> THEN errs
               ELSE Append(errs, NewAggregate(groupErrs))
    /\ groupIdx' = NextGroup(groupIdx)
    /\ pc' = "groups"
    /\ UNCHANGED <<backup, env, itemIdx, groupErrs, result, stack, backedUpItems,
                   tar, volumeBackups, log, faults>>
    /\ UNCHANGED <<rvars, hvars, cvars, svars, uvars>>

\* lines 781-788: the flattened aggregate is returned, and the deferred
\* Close calls run.
BackupReturn ==
    /\ pc = "groups"
    /\ ~Continues(groupIdx)
    /\ result' = Flatten(NewAggregate(errs))
    /\ pc' = "done"
    /\ log' = log \o Closes
    /\ UNCHANGED <<backup, env, groupIdx, itemIdx, groupErrs, errs, stack,
                   backedUpItems, tar, volumeBackups, faults>>
    /\ UNCHANGED <<rvars, hvars, cvars, svars, uvars>>

\* The controller's state while a backup runs: nothing to reconcile.
(***************************************************************************)
(* The server's Config object                                              *)
(***************************************************************************)

\* A provider configuration map, map[string]string, over the keys in use:
\* a key that is not in the map holds Absent.
Absent == "<absent>"

ConfigKeys == {"bucket", "region"}

EmptyMap == [k \in ConfigKeys |-> Absent]

\* api.CloudProviderConfig of the persistent volume provider; set says
\* whether config.PersistentVolumeProvider is non-nil.
NoProvider == [set |-> FALSE, name |-> "", config |-> EmptyMap]

Provider(name, m) == [set |-> TRUE, name |-> name, config |-> m]

\* api.Config: gen stands for the content that changes from one update of
\* the object to the next.
NoConfig ==
    [exists |-> FALSE, name |-> "", gen |-> 0, provider |-> "", bucket |-> "",
     bsConfig |-> EmptyMap, pvProvider |-> NoProvider, restoreOnlyMode |-> FALSE,
     kind |-> "", apiVersion |-> ""]

\* The map a store's Init has been called with, if it has.
NoMap == [called |-> FALSE, config |-> EmptyMap, lookedUp |-> FALSE,
          initOk |-> FALSE, wrapped |-> FALSE]

InitCalled(m) == [called |-> TRUE, config |-> m, lookedUp |-> TRUE,
                  initOk |-> FALSE, wrapped |-> FALSE]

\* No controller was started.
NotStarted ==
    [c \in {"backupSync", "backup", "schedule", "gc", "backupDeletion",
             "restore", "downloadRequest"} |-> 0]

\* The server is not running.
IdleServer ==
    /\ srvpc = "idle"
    /\ ctxDone = FALSE
    /\ sigs = 0
    /\ sigHandler = "none"
    /\ signalsSent = 0
    /\ apiConfig = NoConfig
    /\ originalConfig = NoConfig
    /\ config = NoConfig
    /\ registered = FALSE
    /\ informer = "stopped"
    /\ events = <<>>
    /\ controllers = {}
    /\ workers = NotStarted
    /\ objectStoreInit = NoMap
    /\ blockStoreInit = NoMap
    /\ runResult = "none"
    /\ cleaned = FALSE

IdleController ==
    /\ pvr = [exists |-> FALSE, phase |-> "", message |-> "", rv |-> 0]
    /\ watch = <<>>
    /\ cache = pvr
    /\ pod = [exists |-> FALSE, nodeName |-> "", initContainers |-> <<>>,
              initContainerStatuses |-> <<>>]
    /\ queue = {}
    /\ worker = [busy |-> FALSE, req |-> pvr]
    /\ writes = <<>>
    /\ runs = 0
    /\ podEvents = 0
    /\ apiFaults = 0
    /\ restore = [steps |-> <<>>, file |-> "none", returned |-> "none"]
    /\ peer = [seen |-> [exists |-> FALSE, phase |-> "", message |-> "", rv |-> 0],
               done |-> FALSE]

(***************************************************************************)
(* The Azure credentials file and the init-repository command: values      *)
(***************************************************************************)

\* The keys of the credentials file: the json tags of clientConfig.
ConfigFileKeys ==
    {"subscription_id", "tenant_id", "client_id", "client_secret",
     "storage_account_id", "storage_key", "resource_group"}

\* lines 30-38: the field of clientConfig that carries the tag.
FieldOf(tag) ==
    CASE tag = "subscription_id" -> "SubscriptionID"
      [] tag = "tenant_id" -> "TenantID"
      [] tag = "client_id" -> "ClientID"
      [] tag = "client_secret" -> "ClientSecret"
      [] tag = "storage_account_id" -> "StorageAccountID"
      [] tag = "storage_key" -> "StorageKey"
      [] tag = "resource_group" -> "ResourceGroup"

ConfigFields == {FieldOf(t) : t \in ConfigFileKeys}

\* clientConfig{}
ZeroConfig == [f \in ConfigFields |-> ""]

\* No error
Nil == <<>>

\* The bytes of an empty file: no key is set.
EmptyContents == [kind |-> "empty", entries |-> [k \in ConfigFileKeys |-> Absent]]

NotLoaded == [done |-> FALSE, config |-> ZeroConfig, err |-> Nil]

\* The command's options before the flags are parsed
NoOptions == [KeyFile |-> "", KeyData |-> "", KeySize |-> 0]

\* Neither the loader nor the command runs.
\* No ListPlugins call is made.
IdleLister ==
    /\ impl = [err |-> "", plugins |-> <<>>]
    /\ response = [err |-> "", plugins |-> <<>>]
    /\ listed = [err |-> "", plugins |-> <<>>]
    /\ listerPc = "idle"

IdleTools ==
    /\ IdleLister
    /\ contents = EmptyContents
    /\ loaded = NotLoaded
    /\ options = NoOptions
    /\ keyBytes = <<>>
    /\ cmdPc = "idle"
    /\ cmdResult = ""
    /\ repositoryKey = <<>>

Init ==
    /\ backup \in BackupSpecs
    /\ env \in Envs
    /\ pc = "init"
    /\ groupIdx = 1
    /\ itemIdx = 1
    /\ groupErrs = <<>>
    /\ errs = <<>>
    /\ result = NilErr
    /\ stack = <<>>
    /\ backedUpItems = {}
    /\ tar = <<>>
    /\ volumeBackups = [n \in {"pv1"} |-> NoInfo]
    /\ log = <<>>
    /\ faults = 0
    /\ listing = <<KeyP1>>
    /\ first = NoRun
    /\ now = StartTime
    /\ IdleRestic
    /\ IdleController
    /\ IdleServer
    /\ IdleTools

Next ==
    \/ BackupStart
    \/ BackupGroup
    \/ WalkItem
    \/ PreHooks
    \/ ExecuteAction
    \/ AdditionalItem
    \/ AdditionalReturn
    \/ Snapshot
    \/ PostHooks
    \/ WriteEntry
    \/ WalkReturn
    \/ GroupReturn
    \/ BackupReturn

Spec == Init /\ [][Next]_vars

\* Backup is sequential code: whichever step is next is taken.
SpecFair == Spec /\ WF_vars(Next)

(***************************************************************************)
(* Two Backup calls with the same arguments over the same cluster          *)
(***************************************************************************)

\* A Backup call's run is compared with an earlier one over the same
\* cluster: two pods, listed in either order, and collaborators (hooks,
\* actions, the API server, the snapshot service, the tar writer) that
\* answer the same call in the same way.
PodListings == {<<KeyP1, KeyP2>>, <<KeyP2, KeyP1>>}

\* The failures the next call of backupItem's frame f can end with
CallErrors(f) ==
    CASE f.pc = "prehook" -> {Event("prehook_err", f.key, 0)}
      [] f.pc = "actions" ->
            {Event("action_err", f.key, NextAction(f.key, f.ai))}
      [] f.pc = "additional" ->
            IF f.adds = <<>> THEN {} ELSE {Event("get_err", Head(f.adds), 0)}
      [] f.pc = "snapshot" ->
            {Event(o, f.key, 0) : o \in {"volid_err", "snapshot_err", "volinfo_err"}}
      [] f.pc = "posthook" -> {Event("posthook_err", f.key, 0)}
      [] f.pc = "write" ->
            {Event(o, f.key, 0) : o \in {"marshal_err", "header_err", "body_err"}}
      [] OTHER -> {}

\* The events backupItem's entry logs, and those of the failed calls
EnterOps == {"skip_ns", "skip_cluster", "skip_res", "skip_dup", "mark"}

ErrorOps == {"prehook_err", "action_err", "get_err", "volid_err", "snapshot_err",
             "volinfo_err", "posthook_err", "marshal_err", "header_err", "body_err"}

\* What the events l tell about the collaborators: the calls that failed,
\* and the additional items whose fetch succeeded (backupItem was entered
\* for them below another item).
Answers(l) ==
    {l[i] : i \in {j \in 1..Len(l) : l[j].op \in ErrorOps}}
    \cup {Event("fetched", l[i].key, 0) :
             i \in {j \in 1..Len(l) :
                      l[j].n > 1 /\ l[j].op \in EnterOps}}

\* The names and contents of the archive's entries
ArchiveEntries(t) ==
    {[name |-> t[i].name, bytes |-> t[i].bytes] : i \in 1..Len(t)}

\* The collaborators are functions of the call: a call that failed before,
\* in this run or the earlier one, fails again in the same way, a fetch
\* that succeeded succeeds again, and in the later run a call the earlier
\* run did not make succeeds.
SameAnswers ==
    (pc = "walk" /\ stack # <<>>) =>
        LET past == first.events \cup Answers(log)
            new == Answers(log') \ Answers(log)
            E == CallErrors(Top) \cap past
        IN IF E # {} THEN new \cap E # {}
           ELSE IF first.done THEN faults' = faults
           ELSE (/\ Top.pc = "additional"
                 /\ Top.adds # <<>>
                 /\ Event("fetched", Head(Top.adds), 0) \in past)
                => faults' = faults

\* lines 716-789: Backup is called again with the same arguments, for a
\* backup of the same spec.
Rerun ==
    /\ pc = "done"
    /\ ~first.done
    /\ first' = [done |-> TRUE, events |-> Answers(log),
                 entries |-> ArchiveEntries(tar)]
    /\ listing' \in PodListings
    /\ pc' = "init"
    /\ groupIdx' = 1
    /\ itemIdx' = 1
    /\ groupErrs' = <<>>
    /\ errs' = <<>>
    /\ result' = NilErr
    /\ stack' = <<>>
    /\ backedUpItems' = {}
    /\ tar' = <<>>
    /\ volumeBackups' = [n \in {"pv1"} |-> NoInfo]
    /\ log' = <<>>
    /\ faults' = MaxFaults - MaxRunFaults
    /\ UNCHANGED <<backup, env, now>>
    /\ UNCHANGED <<hvars, cvars, svars, uvars>>

InitRuns ==
    /\ backup \in BackupSpecs
    /\ env \in Envs
    /\ pc = "init"
    /\ groupIdx = 1
    /\ itemIdx = 1
    /\ groupErrs = <<>>
    /\ errs = <<>>
    /\ result = NilErr
    /\ stack = <<>>
    /\ backedUpItems = {}
    /\ tar = <<>>
    /\ volumeBackups = [n \in {"pv1"} |-> NoInfo]
    /\ log = <<>>
    /\ faults = MaxFaults - MaxRunFaults
    /\ listing \in PodListings
    /\ first = NoRun
    /\ now = StartTime
    /\ IdleRestic
    /\ IdleController
    /\ IdleServer
    /\ IdleTools

NextRuns ==
    \/ Next /\ SameAnswers
    \/ Rerun

SpecRuns == InitRuns /\ [][NextRuns]_vars

\* Time passes while Backup runs.
Tick ==
    /\ pc \notin {"init", "done"}
    /\ now < StartTime + MaxClock
    /\ now' = now + 1
    /\ UNCHANGED <<backup, env, pc, groupIdx, itemIdx, groupErrs, errs, result,
                   stack, backedUpItems, tar, volumeBackups, log, faults,
                   listing, first>>
    /\ UNCHANGED <<hvars, cvars, svars, uvars>>

NextClock ==
    \/ Next
    \/ Tick

\* One Backup call, with the clock running.
SpecClock == Init /\ [][NextClock]_vars

(***************************************************************************)
(* The pod-volume-restore controller                                       *)
(***************************************************************************)

\* The node the controller runs on, and another one
NodeName == "node1"

OtherNode == "node2"

\* restic.InitContainer
InitContainer == "restic-wait"

\* The queue key of the one PodVolumeRestore
PVRKey == "heptio-ark/pvr1"

\* rv is the object's resourceVersion.
NoPVR == [exists |-> FALSE, phase |-> "", message |-> "", rv |-> 0]

PVR(phase, message) ==
    [exists |-> TRUE, phase |-> phase, message |-> message, rv |-> 1]

NoPod ==
    [exists |-> FALSE, nodeName |-> "", initContainers |-> <<>>,
     initContainerStatuses |-> <<>>]

Pod(node, inits, statuses) ==
    [exists |-> TRUE, nodeName |-> node, initContainers |-> inits,
     initContainerStatuses |-> statuses]

\* The states of the PodVolumeRestore's pod the pod informer may report.
PodStates ==
    {Pod(NodeName, <<InitContainer>>, <<"waiting">>),
     Pod(NodeName, <<InitContainer>>, <<"running">>),
     Pod(NodeName, <<>>, <<>>),
     Pod(OtherNode, <<InitContainer>>, <<"waiting">>)}

isPodWaiting(p) ==
    \/ Len(p.initContainers) = 0
    \/ p.initContainers[1] # InitContainer
    \/ Len(p.initContainerStatuses) = 0
    \/ p.initContainerStatuses[1] # "running"

shouldProcessPod(p) == p.nodeName = NodeName /\ isPodWaiting(p)

shouldProcessPVR(r) == ~(r.phase # "" /\ r.phase # "New")

\* The pod is looked up in the pod informer's cache.
shouldEnqueuePVR(r) ==
    /\ shouldProcessPVR(r)
    /\ pod.exists
    /\ shouldProcessPod(pod)

\* The PodVolumeRestores of the pod are listed from the informer's cache.
pvrsToEnqueueForPod(p) ==
    IF shouldProcessPod(p) /\ cache.exists /\ shouldProcessPVR(cache)
    THEN {PVRKey} ELSE {}

\* The work queue holds keys: adding a key it holds changes nothing.
Enqueue(q, keys) == q \cup keys

\* A key whose processing returned an error is queued again.
Requeue(q, key) == q \cup {key}

\* jsonpatch.CreateMergePatch: the fields in which new differs from old
MergePatch(old, new) == {f \in {"phase", "message"} : old[f] # new[f]}

\* The API server applies a merge patch to the object it holds: the fields
\* of the patch are set whatever version the patch was computed from, and
\* a changed object gets a new resourceVersion.
ApplyPatch(obj, fields, new) ==
    LET set == [f \in DOMAIN obj |-> IF f \in fields THEN new[f] ELSE obj[f]]
    IN IF set = obj THEN obj ELSE [set EXCEPT !.rv = obj.rv + 1]

\* An API call of the controller: ok says whether it succeeded.
ApiOutcome(ok) ==
    /\ ok \/ apiFaults < MaxApiFaults
    /\ apiFaults' = IF ok THEN apiFaults ELSE apiFaults + 1

\* patchPodVolumeRestore(req, mutate) succeeded, new being req as mutated:
\* the object held by the server, the watch and the history afterwards.
Patched(req, new) ==
    LET fields == MergePatch(req, new)
        after == ApplyPatch(pvr, fields, new)
    IN /\ pvr' = after
       /\ watch' = IF after = pvr THEN watch ELSE Append(watch, after)
       /\ writes' = IF "phase" \in fields
                    THEN Append(writes, [from |-> pvr.phase, to |-> new.phase,
                                         seen |-> req.rv])
                    ELSE writes

\* The PodVolumeRestore informer delivers the next version: AddFunc or
\* UpdateFunc, lines 91-116.
PVREvent ==
    /\ watch # <<>>
    /\ cache' = Head(watch)
    /\ watch' = Tail(watch)
    /\ queue' = IF shouldEnqueuePVR(Head(watch)) THEN Enqueue(queue, {PVRKey})
                ELSE queue
    /\ UNCHANGED <<pvr, pod, worker, writes, runs, podEvents, apiFaults>>
    /\ UNCHANGED <<peer, restore, bvars, svars, uvars>>

\* The pod informer delivers an add or update of the pod: lines 118-137.
PodEvent ==
    /\ podEvents < MaxPodEvents
    /\ podEvents' = podEvents + 1
    /\ \E p \in PodStates :
          /\ pod' = p
          /\ queue' = Enqueue(queue, pvrsToEnqueueForPod(p))
    /\ UNCHANGED <<pvr, watch, cache, worker, writes, runs, apiFaults>>
    /\ UNCHANGED <<peer, restore, bvars, svars, uvars>>

\* Faulty variant, for comparison: processRestore is handed the cached object itself.
SameObject(obj) == [obj |-> obj, shared |-> TRUE]

\* line 242, req.DeepCopy(): an object with the content of obj that is not
\* the object obj held by the cache.
DeepCopy(obj) == [obj |-> obj, shared |-> FALSE]

\* The object held by the informer cache after mutate(req) has changed req
\* into new: lines 339-340.
CacheAfterMutate(req, new) == IF req.shared THEN new ELSE cache

\* No processRestore call has been made.
NoRestore == [steps |-> <<>>, file |-> "none", returned |-> "none"]

\* A step of processRestore and whether it succeeded
Step(op, ok) == [op |-> op, ok |-> ok]

\* The worker takes the key off the queue: processQueueItem, lines 223-244,
\* and processRestore up to the patch to InProgress, lines 246-259.
ProcessStart ==
    /\ ~worker.busy
    /\ PVRKey \in queue
    /\ IF ~cache.exists
       THEN /\ queue' = queue \ {PVRKey}
            /\ UNCHANGED <<pvr, watch, cache, worker, writes, apiFaults, restore>>
       ELSE LET reqCopy == DeepCopy(cache)
                new == [reqCopy.obj EXCEPT !.phase = "InProgress"]
            IN \E ok \in BOOLEAN :
                 /\ ApiOutcome(ok)
                 /\ cache' = CacheAfterMutate(reqCopy, new)
                 /\ IF ok
                    THEN /\ Patched(reqCopy.obj, new)
                         /\ worker' = [busy |-> TRUE, req |-> pvr']
                         /\ queue' = queue \ {PVRKey}
                         /\ restore' = [NoRestore EXCEPT
                                          !.steps = <<Step("patch_InProgress", TRUE)>>]
                    ELSE /\ queue' = Requeue(queue \ {PVRKey}, PVRKey)
                         /\ restore' = [NoRestore EXCEPT
                                          !.steps = <<Step("patch_InProgress", FALSE)>>,
                                          !.returned = "err"]
                         /\ UNCHANGED <<pvr, watch, worker, writes>>
    /\ UNCHANGED <<pod, runs, podEvents>>
    /\ UNCHANGED <<peer, bvars, svars, uvars>>

\* lines 260-278: the steps of processRestore before the restic command
\* that may fail; the pod is looked up in the pod informer's cache.
RestoreOutcomes ==
    IF ~pod.exists THEN {"pod_err"}
    ELSE {"voldir_err", "creds_err", "restic_err", "script_err", "ok"}

\* The steps of processRestore between the two status patches, in the
\* order of lines 261-322: the pod lookup, GetVolumeDirectory,
\* TempCredentialsFile, the restic restore command, complete-restore.sh.
RestoreOps == <<"pod", "voldir", "creds", "restic", "script">>

\* Faulty variant, for comparison: a failed restic restore command is logged and the
\* restore goes on.
RanIgnoringRestic(o) ==
    LET n == IF o \in {"ok", "restic_err"} THEN Len(RestoreOps)
             ELSE CHOOSE i \in 1..Len(RestoreOps) : RestoreOps[i] \o "_err" = o
    IN [i \in 1..n |-> Step(RestoreOps[i],
                            IF o = "restic_err" THEN RestoreOps[i] # "restic"
                            ELSE o = "ok" \/ i < n)]

\* The steps processRestore takes when o is the step that fails (or ok):
\* each step's error returns through c.fail, so no later step is taken.
Ran(o) ==
    LET n == IF o = "ok" THEN Len(RestoreOps)
             ELSE CHOOSE i \in 1..Len(RestoreOps) : RestoreOps[i] \o "_err" = o
    IN [i \in 1..n |-> Step(RestoreOps[i], o = "ok" \/ i < n)]

\* Whether a step of the sequence failed
Failed(steps) == \E i \in 1..Len(steps) : ~steps[i].ok

\* Faulty variant, for comparison: c.fail sets the phase only.
failPhaseOnly(req, msg) == [req EXCEPT !.phase = "Failed"]

\* lines 361-370, the mutation of c.fail: phase Failed and the message,
\* which is the wrapped error's text or a formatted text, o standing for it.
fail(req, msg) == [req EXCEPT !.phase = "Failed", !.message = msg]

\* The text c.fail is called with for the failed step o: lines 264, 270,
\* 277, 299 and 320.
FailMessage(o) == "error: " \o o

\* Faulty variant, for comparison: the file is removed at the end of processRestore
\* only, not by a deferred call.
FileAtReturnNotDeferred(steps) ==
    IF \E i \in 1..Len(steps) : steps[i] = Step("creds", TRUE)
    THEN IF Failed(steps) THEN "exists" ELSE "removed"
    ELSE "none"

\* line 280, defer os.Remove(file): the credentials file when
\* processRestore returns, by whatever return statement; it was created
\* if TempCredentialsFile succeeded.
FileAtReturn(steps) ==
    IF \E i \in 1..Len(steps) : steps[i] = Step("creds", TRUE)
    THEN "removed" ELSE "none"

\* processRestore after the patch to InProgress, lines 261-329: o is the
\* step that failed, or ok; the status patch of c.fail or of line 324
\* follows, and its error is the one error processRestore returns.
ProcessFinish ==
    /\ worker.busy
    /\ \E o \in RestoreOutcomes : \E ok \in BOOLEAN :
          LET ran == Ran(o)
              patch == IF Failed(ran) THEN "patch_Failed" ELSE "patch_Completed"
              steps == restore.steps \o ran \o <<Step(patch, ok)>>
          IN
          /\ ApiOutcome(ok)
          /\ runs' = IF \E i \in 1..Len(ran) : ran[i].op = "restic"
                     THEN runs + 1 ELSE runs
          /\ restore' = [steps |-> steps, file |-> FileAtReturn(steps),
                         returned |-> IF ok THEN "nil" ELSE "err"]
          /\ IF ok
             THEN /\ Patched(worker.req,
                             IF Failed(ran) THEN fail(worker.req, FailMessage(o))
                             ELSE [worker.req EXCEPT !.phase = "Completed"])
                  /\ UNCHANGED queue
             ELSE /\ queue' = Requeue(queue, PVRKey)
                  /\ UNCHANGED <<pvr, watch, writes>>
    /\ worker' = [busy |-> FALSE, req |-> NoPVR]
    /\ UNCHANGED <<cache, pod, podEvents>>
    /\ UNCHANGED <<peer, bvars, svars, uvars>>

\* The agent process is killed while the worker is inside processRestore
\* and started again: the queue and the worker's state are lost, and the
\* new process's informer lists the PodVolumeRestore as it is now.
AgentRestart ==
    /\ worker.busy
    /\ worker' = [busy |-> FALSE, req |-> NoPVR]
    /\ queue' = {}
    /\ cache' = NoPVR
    /\ watch' = <<pvr>>
    /\ UNCHANGED <<pvr, pod, writes, runs, podEvents, apiFaults, peer>>
    /\ UNCHANGED <<restore, bvars, svars, uvars>>

\* A second writer, another instance of the agent, reads the new
\* PodVolumeRestore and patches its phase to InProgress with
\* patchPodVolumeRestore, lines 332-359.
PeerPatch ==
    /\ ~peer.done
    /\ pvr.exists
    /\ pvr.phase \in {"", "New"}
    /\ LET new == [pvr EXCEPT !.phase = "InProgress"]
           after == ApplyPatch(pvr, MergePatch(pvr, new), new)
       IN /\ pvr' = after
          /\ watch' = IF after = pvr THEN watch ELSE Append(watch, after)
    /\ peer' = [seen |-> pvr, done |-> TRUE]
    /\ UNCHANGED <<cache, pod, queue, worker, writes, runs, podEvents, apiFaults>>
    /\ UNCHANGED <<restore, bvars, svars, uvars>>

\* No Backup call is in progress.
IdleWalk ==
    /\ backup = [includeClusterResources |-> "nil", namespaces |-> IE({}, {}),
                 resources |-> IE({}, {}), snapshotVolumes |-> "nil",
                 hooks |-> "valid"]
    /\ env = [snapshotService |-> FALSE, fresh |-> FALSE, zoneLabel |-> "",
              appliesTo |-> "ok"]
    /\ pc = "idle"
    /\ groupIdx = 1
    /\ itemIdx = 1
    /\ groupErrs = <<>>
    /\ errs = <<>>
    /\ result = NilErr
    /\ stack = <<>>
    /\ backedUpItems = {}
    /\ tar = <<>>
    /\ volumeBackups = [n \in {"pv1"} |-> NoInfo]
    /\ log = <<>>
    /\ faults = 0
    /\ listing = <<KeyP1>>
    /\ first = NoRun
    /\ now = StartTime

\* The backup pipeline's state while the controller runs: no backup.
IdleBackup == IdleWalk /\ IdleRestic

\* A PodVolumeRestore was created with phase New or none; the informers
\* have not delivered it yet, and its pod is not yet known to the pod
\* informer or is scheduled on the node with its init container waiting.
InitPVR ==
    /\ IdleBackup
    /\ IdleServer
    /\ IdleTools
    /\ pvr \in {PVR("", ""), PVR("New", "")}
    /\ watch = <<pvr>>
    /\ cache = NoPVR
    /\ pod \in {NoPod, Pod(NodeName, <<InitContainer>>, <<"waiting">>)}
    /\ queue = {}
    /\ worker = [busy |-> FALSE, req |-> NoPVR]
    /\ writes = <<>>
    /\ runs = 0
    /\ podEvents = 0
    /\ apiFaults = 0
    /\ restore = NoRestore
    /\ peer = [seen |-> NoPVR, done |-> FALSE]

NextPVR ==
    \/ PVREvent
    \/ PodEvent
    \/ ProcessStart
    \/ ProcessFinish
    \/ AgentRestart
    \/ PeerPatch

SpecPVR == InitPVR /\ [][NextPVR]_vars

\* The informer delivers its events and the worker keeps running; pod
\* events, restarts and the second writer happen or not, and only
\* MaxApiFaults API calls fail.
SpecPVRFair ==
    /\ InitPVR
    /\ [][NextPVR]_vars
    /\ WF_vars(PVREvent)
    /\ WF_vars(ProcessStart)
    /\ WF_vars(ProcessFinish)

\* C2: every phase the controller writes follows New (or empty) ->
\* InProgress -> Completed or Failed: it writes no phase to an object that
\* is Completed or Failed, and moves no object back to InProgress.
C2_PhaseProgression ==
    \A i \in 1..Len(writes) :
       /\ writes[i].from \notin {"Completed", "Failed"}
       /\ writes[i].to = "InProgress" => writes[i].from \in {"", "New", "InProgress"}

(***************************************************************************)
(* Properties of a backup run                                              *)
(***************************************************************************)

\* The events of the steps backupItem takes for an item after the dedup check.
StepOps == {"prehook", "prehook_err", "action", "action_err", "volid_err",
            "snapshot", "snapshot_err", "volinfo_err", "posthook", "posthook_err",
            "write", "marshal_err", "header_err", "body_err"}

CountOps(ops, key) ==
    Cardinality({i \in 1..Len(log) : log[i].op \in ops /\ log[i].key = key})

Entries(key) == {i \in 1..Len(tar) : tar[i].key = key}

\* backupItem was invoked for the item.
Entered(key) == CountOps(EnterOps, key) > 0

AllListedEntered ==
    \A g \in 1..Len(Groups) : \A i \in 1..Len(GroupWork(g)) : Entered(GroupWork(g)[i])

AllGroupsProcessed ==
    \A g \in 1..Len(Groups) : Count("group", NoKey, g) = 1

WriteFailed == \E i \in 1..Len(log) : log[i].op \in WriteErrors

InResult(e) == \E i \in 1..Len(Leaves(result)) : Leaves(result)[i] = e

\* C1: within one Backup at most one tar entry is written for each key; the
\* first invocation that passes the filters marks the key, and no later
\* invocation for the key runs a hook, an action or a snapshot or writes.
C1_AtMostOneEntryPerKey ==
    \A key \in ClusterItems :
       /\ Cardinality(Entries(key)) <= 1
       /\ CountOps({"mark"}, key) <= 1
       /\ CountOps({"prehook", "prehook_err"}, key) <= 1
       /\ \A n \in 1..Len(actions) :
             Count("action", key, n) + Count("action_err", key, n) <= 1
       /\ CountOps({"volid_err", "snapshot", "snapshot_err"}, key) <= 1
       /\ CountOps({"posthook", "posthook_err"}, key) <= 1
       /\ CountOps({"write", "marshal_err", "header_err", "body_err"}, key) <= 1
       /\ CountOps(StepOps, key) > 0 => key \in backedUpItems
       /\ \A i \in 1..Len(log) :
             log[i].op = "skip_dup" /\ log[i].key = key
                => \E j \in 1..(i - 1) : log[j].op = "mark" /\ log[j].key = key

\* An item was written and a later invocation for it was skipped as a duplicate.
C1_Witness ==
    /\ pc = "done"
    /\ \E key \in ClusterItems :
          /\ Logged("skip_dup", key)
          /\ Entries(key) # {}

\* C3: a pre-hook error ends backupItem for the item with that error: no
\* action, snapshot or post-hook runs and nothing is written for it, while
\* the other items of the backup are still processed.
C3_PreHookErrorEndsItem ==
    \A key \in ClusterItems :
       Logged("prehook_err", key) =>
          /\ CountOps(StepOps \ {"prehook_err"}, key) = 0
          /\ Entries(key) = {}
          /\ \A i \in 1..Len(stack) :
                stack[i].key = key =>
                   /\ stack[i].pc = "return"
                   /\ stack[i].rv \in {Err("prehook_err", key), NilErr}
          /\ pc = "done" => InResult(Err("prehook_err", key))
          /\ pc = "done" /\ ~WriteFailed => AllListedEntered
          /\ pc = "done" => AllGroupsProcessed

\* The pre hook of the first listed item failed and a later item was written.
C3_Witness ==
    /\ pc = "done"
    /\ Logged("prehook_err", KeyNs1)
    /\ Entries(KeyP1) # {}

\* C4: a failing group does not stop the Backup; every group is processed,
\* and the flattened aggregate Backup returns holds every recorded error and
\* is nil exactly when no group reported one.
C4_ErrorsAggregated ==
    pc = "done" =>
       /\ AllGroupsProcessed
       /\ (result = NilErr) <=> (errs = <<>>)
       /\ (result = NilErr) <=> (\A i \in 1..Len(log) : log[i].op \notin ErrorOps)
       /\ \A i \in 1..Len(result.errs) : ~result.errs[i].agg
       /\ \A i \in 1..Len(log) :
             log[i].op \in ErrorOps => InResult(Err(log[i].op, log[i].key))

\* An item of the first group failed and the second group was processed.
C4_Witness ==
    /\ pc = "done"
    /\ result # NilErr
    /\ \E i \in 1..Len(log) : \E j \in (i + 1)..Len(log) :
          /\ log[i].op \in ErrorOps
          /\ log[j] = Event("group", NoKey, Len(Groups))

AppliedActions(key) ==
    {n \in 1..Len(actions) : Count("action", key, n) > 0}

\* C6: the JSON written for an item is the item as updated by the item
\* actions applied to it.
C6_ArchiveHoldsUpdatedItem ==
    \A i \in 1..Len(tar) : tar[i].body = AppliedActions(tar[i].key)

\* C7: CreateSnapshot is invoked at most once for each PersistentVolume name
\* within one Backup, also when the volume is reached by the listing and as
\* an additional item.
C7_SnapshotAtMostOnce ==
    \A key \in ClusterItems : CreateSnapshotCalls(key.name) <= 1

\* The volume was snapshotted and reached again as an additional item.
C7_Witness ==
    /\ Logged("snapshot", KeyPv1)
    /\ Logged("skip_dup", KeyPv1)
    /\ \E i \in 1..Len(log) : log[i].key = KeyPv1 /\ log[i].op \in EnterOps /\ log[i].n > 1
    /\ \E i \in 1..Len(log) : log[i].key = KeyPv1 /\ log[i].op \in EnterOps /\ log[i].n = 1

\* C8 as stated: a failure of CreateSnapshot is recorded in the backup's
\* VolumeBackupInfo of the volume.
C8_FailureInVolumeBackupInfo ==
    \A key \in ClusterItems :
       Logged("snapshot_err", key) => volumeBackups[key.name] # NoInfo

\* C8 as amended: when CreateSnapshot fails for a PersistentVolume, no
\* VolumeBackupInfo is recorded for the volume; the failure is returned as
\* an error of the item, which is not written to the archive, and reported
\* by Backup, and the backup continues with the remaining items.
C8_SnapshotFailureReported ==
    \A key \in ClusterItems :
       Logged("snapshot_err", key) =>
          /\ volumeBackups[key.name] = NoInfo
          /\ Entries(key) = {}
          /\ pc = "done" => InResult(Err("snapshot_err", key))
          /\ pc = "done" /\ ~WriteFailed => AllListedEntered
          /\ pc = "done" => AllGroupsProcessed

\* CreateSnapshot failed for the volume, and the pod listed after it and the
\* next group were processed afterwards.
C8_Witness ==
    /\ pc = "done"
    /\ \E i \in 1..Len(log) : \E j \in (i + 1)..Len(log) :
          /\ log[i] = Event("snapshot_err", KeyPv1, 0)
          /\ log[j].key = KeyP1 /\ log[j].op \in EnterOps /\ log[j].n = 1
    /\ Entries(KeyD1) # {}

Rejected(key) ==
    \/ key.namespace # "" /\ key.namespace \in backup.namespaces.exc
    \/ key.namespace # "" /\ backup.namespaces.inc # {}
          /\ "*" \notin backup.namespaces.inc /\ key.namespace \notin backup.namespaces.inc
    \/ key.resource \in backup.resources.exc
    \/ backup.resources.inc # {}
          /\ "*" \notin backup.resources.inc /\ key.resource \notin backup.resources.inc

\* C9: no tar entry is written for an item whose namespace or group-resource
\* the backup's predicates reject, also when it is reached only as an
\* additional item; it is skipped without error and is not marked.
C9_RejectedNeverWritten ==
    \A key \in ClusterItems :
       Rejected(key) =>
          /\ Entries(key) = {}
          /\ key \notin backedUpItems
          /\ CountOps(StepOps, key) = 0
          /\ \A i \in 1..Len(stack) :
                stack[i].key = key => stack[i].pc = "return" /\ stack[i].rv = NilErr

\* An excluded namespace's item and an excluded resource's item were each
\* reached as an additional item.
C9_Witness ==
    /\ pc = "done"
    /\ \E i \in 1..Len(log) : log[i].op = "skip_ns" /\ log[i].n > 1
    /\ \E i \in 1..Len(log) : log[i].op = "skip_res" /\ log[i].n > 1

\* C10: a cluster-scoped item is skipped when includeClusterResources is
\* explicitly false unless it is of the namespaces resource; when the flag
\* is unset or true this rule skips nothing.
C10_ClusterScopedRule ==
    \A i \in 1..Len(log) :
       LET e == log[i] IN
       /\ e.op = "skip_cluster" =>
             /\ backup.includeClusterResources = "false"
             /\ e.key.namespace = ""
             /\ e.key.resource # Namespaces
       /\ e.op \in {"skip_res", "skip_dup", "mark"}
             /\ e.key.namespace = "" /\ backup.includeClusterResources = "false"
             => e.key.resource = Namespaces
       /\ backup.includeClusterResources \in {"nil", "true"} => e.op # "skip_cluster"

\* With the flag false a persistent volume was skipped and a namespace written.
C10_Witness ==
    /\ pc = "done"
    /\ backup.includeClusterResources = "false"
    /\ Logged("skip_cluster", KeyPv1)
    /\ Entries(KeyNs1) # {}

(***************************************************************************)
(* The order of backupItem's steps                                         *)
(***************************************************************************)

\* The position of a step in the order actions, pre hooks, snapshot, post
\* hooks, archive entry.
ActionsFirstRank(op) ==
    CASE op \in {"action", "action_err"} -> 1
      [] op \in {"prehook", "prehook_err"} -> 2
      [] op \in {"volid_err", "snapshot", "snapshot_err", "volinfo_err"} -> 3
      [] op \in {"posthook", "posthook_err"} -> 4
      [] OTHER -> 5

\* The position of a step in the order pre hooks, actions, snapshot, post
\* hooks, archive entry.
HooksFirstRank(op) ==
    CASE op \in {"prehook", "prehook_err"} -> 1
      [] op \in {"action", "action_err"} -> 2
      [] op \in {"volid_err", "snapshot", "snapshot_err", "volinfo_err"} -> 3
      [] op \in {"posthook", "posthook_err"} -> 4
      [] OTHER -> 5

\* The indices of the step events of the item, in the order they happened.
StepsOf(key) == {i \in 1..Len(log) : log[i].op \in StepOps /\ log[i].key = key}

\* C11: for an item that passed the filters and the dedup check, backupItem
\* applies the item actions, then runs the pre hooks, then takes the
\* snapshot, then runs the post hooks, then writes the archive entry.
C11_ActionsBeforePreHooks ==
    \A key \in ClusterItems :
       \A i, j \in StepsOf(key) :
          i < j => ActionsFirstRank(log[i].op) <= ActionsFirstRank(log[j].op)

\* C11 as the code has it: the pre hooks run first, then the item actions,
\* the snapshot, the post hooks and the archive entry; no step happens
\* before the pre hooks have run and the entry is written only after the
\* post hooks.
C11_PreHooksBeforeActions ==
    \A key \in ClusterItems :
       /\ \A i, j \in StepsOf(key) :
             i < j => HooksFirstRank(log[i].op) <= HooksFirstRank(log[j].op)
       /\ \A i \in StepsOf(key) :
             /\ log[i].op \notin {"prehook", "prehook_err"}
                   => \E j \in 1..(i - 1) : log[j] = Event("prehook", key, 0)
             /\ HooksFirstRank(log[i].op) = 5
                   => \E j \in 1..(i - 1) : log[j] = Event("posthook", key, 0)

\* A persistent volume went through every step: pre hooks, an action, the
\* snapshot, post hooks and the archive entry.
C11_Witness ==
    /\ Logged("prehook", KeyPv1)
    /\ \E n \in 1..Len(actions) : Count("action", KeyPv1, n) = 1
    /\ Logged("snapshot", KeyPv1)
    /\ Logged("posthook", KeyPv1)
    /\ Logged("write", KeyPv1)
    /\ Entries(KeyPv1) # {}

(***************************************************************************)
(* File-level backup of annotated pod volumes                              *)
(***************************************************************************)

\* line 301: the volumes named by the pod's backup-volumes annotation; pod
\* ns1/p1 bears the annotation, no other item does.
BackupVolumes(key) == IF key = KeyP1 THEN {1, 2} ELSE {}

\* C12: when backupItem processes a pod that bears the backup-volumes
\* annotation, the file-level backup of each listed volume is driven after
\* the snapshot step and before the post hooks, so before the pod is
\* written to the archive.
C12_AnnotatedVolumesBackedUp ==
    \A key \in ClusterItems :
       \A i \in 1..Len(log) :
          log[i].key = key /\ log[i].op \in {"posthook", "posthook_err"}
             => \A v \in BackupVolumes(key) :
                   \E j \in 1..(i - 1) : log[j] = Event("restic", key, v)

(***************************************************************************)
(* The server: server.run, its signal handler, its Config watch            *)
(***************************************************************************)

\* The Config objects 'default' the server may find, as Get returns them:
\* Kind and APIVersion are not set.
Configs ==
    {[exists |-> TRUE, name |-> "default", gen |-> 0, provider |-> p,
      bucket |-> "b1", bsConfig |-> m, pvProvider |-> pv, restoreOnlyMode |-> r,
      kind |-> "", apiVersion |-> ""] :
        p \in {"aws", ""},
        m \in {EmptyMap, [bucket |-> Absent, region |-> "r1"],
               [bucket |-> "b0", region |-> "r1"]},
        pv \in {NoProvider, Provider("aws", [bucket |-> Absent, region |-> "r2"]),
                Provider("", EmptyMap)},
        r \in BOOLEAN}

\* Faulty variant, for comparison: the bucket name is not added to the map.
applyConfigDefaultsNoBucket(c) == c

\* applyConfigDefaults, lines 406-434: the sync periods and the resource
\* priorities get their defaults, and the bucket name is added to the
\* backup storage provider's map.
applyConfigDefaults(c) ==
    [c EXCEPT !.bsConfig = [c.bsConfig EXCEPT !["bucket"] = c.bucket]]

\* The controllers runControllers starts: lines 576-718.
AllControllers ==
    {"backupSync", "backup", "schedule", "gc", "backupDeletion", "restore",
     "downloadRequest"}

\* Faulty variant, for comparison: restore-only mode starts every controller.
RestoreOnlyStartsAll == AllControllers

\* lines 604-606: the controllers started when config.RestoreOnlyMode is set
RestoreOnlyControllers == {"backupSync", "restore", "downloadRequest"}

\* The argument of each controller's Run(ctx, 1): lines 586, 624, 638, 650,
\* 669, 702 and 716.
RunWorkers == 1

\* The workers of the controllers of the set S, started by runControllers
StartedWith(S) == [c \in AllControllers |-> IF c \in S THEN RunWorkers ELSE 0]

Running == srvpc \notin {"idle", "returned", "exited"}

\* run returns res; the deferred CleanupClients of line 309 runs.
Return(res) ==
    /\ srvpc' = "returned"
    /\ runResult' = res
    /\ cleaned' = TRUE

\* lines 308-310 and 469-478: run starts and installs the signal handler.
HandleShutdownSignals ==
    /\ srvpc = "run"
    /\ srvpc' = "ensureArkNamespace"
    /\ sigHandler' = "waiting"
    /\ UNCHANGED <<ctxDone, sigs, signalsSent, apiConfig, originalConfig, config,
                   registered, informer, events, controllers, workers, objectStoreInit,
                   blockStoreInit, runResult, cleaned>>
    /\ UNCHANGED <<bvars, cvars, uvars>>

\* lines 473-477: the goroutine takes the signal from the channel and
\* cancels the context; it takes one signal only.
SignalReceived ==
    /\ sigHandler = "waiting"
    /\ sigs > 0
    /\ sigs' = sigs - 1
    /\ sigHandler' = "done"
    /\ ctxDone' = TRUE
    /\ UNCHANGED <<srvpc, signalsSent, apiConfig, originalConfig, config,
                   registered, informer, events, controllers, workers, objectStoreInit,
                   blockStoreInit, runResult, cleaned>>
    /\ UNCHANGED <<bvars, cvars, uvars>>

\* lines 312-314 and 347-364: ensureArkNamespace.
EnsureArkNamespace ==
    /\ srvpc = "ensureArkNamespace"
    /\ \E ok \in BOOLEAN :
          IF ok THEN srvpc' = "loadConfig" /\ UNCHANGED <<runResult, cleaned>>
          ELSE Return("namespace_err")
    /\ UNCHANGED <<ctxDone, sigs, sigHandler, signalsSent, apiConfig,
                   originalConfig, config, registered, informer, events,
                   controllers, workers, objectStoreInit, blockStoreInit>>
    /\ UNCHANGED <<bvars, cvars, uvars>>

\* lines 366-387 and 316-324: one round of loadConfig's loop. When the Get
\* fails the loop sleeps and tries again; when it succeeds run keeps the
\* object and applies the defaults to a clone.
LoadConfig ==
    /\ srvpc = "loadConfig"
    /\ \E ok \in BOOLEAN :
          IF ok /\ apiConfig.exists
          THEN /\ srvpc' = "watchConfig"
               /\ originalConfig' = apiConfig
               /\ config' = applyConfigDefaults(apiConfig)
          ELSE /\ srvpc' = "sleep"
               /\ UNCHANGED <<originalConfig, config>>
    /\ UNCHANGED <<ctxDone, sigs, sigHandler, signalsSent, apiConfig, registered,
                   informer, events, controllers, workers, objectStoreInit,
                   blockStoreInit, runResult, cleaned>>
    /\ UNCHANGED <<bvars, cvars, uvars>>

\* line 383: time.Sleep(5 * time.Second), then the next round.
LoadConfigSleep ==
    /\ srvpc = "sleep"
    /\ srvpc' = "loadConfig"
    /\ UNCHANGED <<ctxDone, sigs, sigHandler, signalsSent, apiConfig,
                   originalConfig, config, registered, informer, events,
                   controllers, workers, objectStoreInit, blockStoreInit, runResult,
                   cleaned>>
    /\ UNCHANGED <<bvars, cvars, uvars>>

\* lines 326 and 436-467: watchConfig registers the update handler.
WatchConfig ==
    /\ srvpc = "watchConfig"
    /\ srvpc' = "initBackupService"
    /\ registered' = TRUE
    /\ UNCHANGED <<ctxDone, sigs, sigHandler, signalsSent, apiConfig,
                   originalConfig, config, informer, events, controllers, workers,
                   objectStoreInit, blockStoreInit, runResult, cleaned>>
    /\ UNCHANGED <<bvars, cvars, uvars>>

\* getObjectStore and getBlockStore, lines 507-539: how far the call gets
\* for the provider name.
StoreOutcomes(name) ==
    IF name = "" THEN {"name_err"} ELSE {"lookup_err", "init_err", "ok"}

\* getObjectStore and getBlockStore, lines 507-539: the state of the store
\* after the call with outcome o.  The plugin manager is contacted unless
\* the name is empty (508-510), Init is called with the provider's map when
\* the lookup succeeded (512-517), and the store is returned only when Init
\* returned no error (517-521).
getStore(name, m, o) ==
    IF o = "name_err" THEN NoMap
    ELSE IF o = "lookup_err" THEN [NoMap EXCEPT !.lookedUp = TRUE]
    ELSE [InitCalled(m) EXCEPT !.initOk = (o = "ok")]

\* Faulty variant, for comparison: a service is built around whatever the
\* getter produced, the error is not looked at.
WrapsIgnoringError(o) == o # "name_err"

\* initBackupService 482-488 and initSnapshotService 499-503: the service
\* is built around the store only when the getter returned no error.
Wraps(o) == o = "ok"

\* lines 328-330 and 480-490: initBackupService.
InitBackupService ==
    /\ srvpc = "initBackupService"
    /\ \E o \in StoreOutcomes(config.provider) :
          /\ objectStoreInit' =
                 [getStore(config.provider, config.bsConfig, o)
                    EXCEPT !.wrapped = Wraps(o)]
          /\ IF o = "ok"
             THEN srvpc' = "initSnapshotService" /\ UNCHANGED <<runResult, cleaned>>
             ELSE Return(o)
    /\ UNCHANGED <<ctxDone, sigs, sigHandler, signalsSent, apiConfig,
                   originalConfig, config, registered, informer, events,
                   controllers, workers, blockStoreInit>>
    /\ UNCHANGED <<bvars, cvars, uvars>>

\* lines 332-334 and 492-505: initSnapshotService.
InitSnapshotService ==
    /\ srvpc = "initSnapshotService"
    /\ IF ~config.pvProvider.set
       THEN /\ srvpc' = "initResticManager"
            /\ UNCHANGED <<blockStoreInit, runResult, cleaned>>
       ELSE \E o \in StoreOutcomes(config.pvProvider.name) :
              /\ blockStoreInit' =
                     [getStore(config.pvProvider.name,
                               config.pvProvider.config, o)
                        EXCEPT !.wrapped = Wraps(o)]
              /\ IF o = "ok"
                 THEN srvpc' = "initResticManager" /\ UNCHANGED <<runResult, cleaned>>
                 ELSE Return(o)
    /\ UNCHANGED <<ctxDone, sigs, sigHandler, signalsSent, apiConfig,
                   originalConfig, config, registered, informer, events,
                   controllers, workers, objectStoreInit>>
    /\ UNCHANGED <<bvars, cvars, uvars>>

\* lines 336-338 and 548-559: initResticManager, CheckAllRepos.
InitResticManager ==
    /\ srvpc = "initResticManager"
    /\ \E ok \in BOOLEAN :
          IF ok THEN srvpc' = "runControllers" /\ UNCHANGED <<runResult, cleaned>>
          ELSE Return("restic_err")
    /\ UNCHANGED <<ctxDone, sigs, sigHandler, signalsSent, apiConfig,
                   originalConfig, config, registered, informer, events,
                   controllers, workers, objectStoreInit, blockStoreInit>>
    /\ UNCHANGED <<bvars, cvars, uvars>>

\* lines 561-718: runControllers starts the controllers. An error of the
\* discovery helper is returned after the backup sync controller has been
\* started; an error of newBackupper or newRestorer ends the process
\* (cmd.CheckError).
StartControllers ==
    /\ srvpc = "runControllers"
    /\ \E o \in {"discovery_err", "backupper_fatal", "restorer_fatal", "ok"} :
          /\ o = "backupper_fatal" => ~config.restoreOnlyMode
          /\ controllers' =
                CASE o = "discovery_err" -> {"backupSync"}
                  [] o = "backupper_fatal" -> {"backupSync"}
                  [] o = "restorer_fatal" ->
                        IF config.restoreOnlyMode THEN {"backupSync"}
                        ELSE AllControllers \ {"restore", "downloadRequest"}
                  [] o = "ok" ->
                        IF config.restoreOnlyMode THEN RestoreOnlyControllers
                        ELSE AllControllers
          /\ workers' = StartedWith(controllers')
          /\ CASE o = "discovery_err" -> Return(o)
               [] o \in {"backupper_fatal", "restorer_fatal"} ->
                     srvpc' = "exited" /\ runResult' = o /\ UNCHANGED cleaned
               [] o = "ok" ->
                     srvpc' = "startInformers" /\ UNCHANGED <<runResult, cleaned>>
    /\ UNCHANGED <<ctxDone, sigs, sigHandler, signalsSent, apiConfig,
                   originalConfig, config, registered, informer, events,
                   objectStoreInit, blockStoreInit>>
    /\ UNCHANGED <<bvars, cvars, uvars>>

\* line 721: go s.sharedInformerFactory.Start(ctx.Done()).
StartInformers ==
    /\ srvpc = "startInformers"
    /\ srvpc' = "waitForCacheSync"
    /\ informer' = "starting"
    /\ UNCHANGED <<ctxDone, sigs, sigHandler, signalsSent, apiConfig,
                   originalConfig, config, registered, events, controllers, workers,
                   objectStoreInit, blockStoreInit, runResult, cleaned>>
    /\ UNCHANGED <<bvars, cvars, uvars>>

\* The informer lists the objects: what it finds is delivered as added, for
\* which watchConfig has no handler; from now on it sees every update.
InformerSync ==
    /\ informer = "starting"
    /\ informer' = "running"
    /\ UNCHANGED <<srvpc, ctxDone, sigs, sigHandler, signalsSent, apiConfig,
                   originalConfig, config, registered, events, controllers, workers,
                   objectStoreInit, blockStoreInit, runResult, cleaned>>
    /\ UNCHANGED <<bvars, cvars, uvars>>

\* lines 723-727: WaitForCacheSync returns when the informer has synced or
\* the context is done.
WaitForCacheSync ==
    /\ srvpc = "waitForCacheSync"
    /\ informer = "running" \/ ctxDone
    /\ srvpc' = "started"
    /\ UNCHANGED <<ctxDone, sigs, sigHandler, signalsSent, apiConfig,
                   originalConfig, config, registered, informer, events,
                   controllers, workers, objectStoreInit, blockStoreInit, runResult,
                   cleaned>>
    /\ UNCHANGED <<bvars, cvars, uvars>>

\* line 729: <-ctx.Done().
WaitCtxDone ==
    /\ srvpc = "started"
    /\ ctxDone
    /\ srvpc' = "wgWait"
    /\ UNCHANGED <<ctxDone, sigs, sigHandler, signalsSent, apiConfig,
                   originalConfig, config, registered, informer, events,
                   controllers, workers, objectStoreInit, blockStoreInit, runResult,
                   cleaned>>
    /\ UNCHANGED <<bvars, cvars, uvars>>

\* A controller's Run returns once the context is cancelled: wg.Done().
ControllerReturns ==
    /\ ctxDone
    /\ Running
    /\ \E c \in controllers : controllers' = controllers \ {c}
    /\ UNCHANGED <<srvpc, ctxDone, sigs, sigHandler, signalsSent, apiConfig,
                   originalConfig, config, registered, informer, events,
                   workers, objectStoreInit, blockStoreInit, runResult, cleaned>>
    /\ UNCHANGED <<bvars, cvars, uvars>>

\* lines 731-734: wg.Wait(), then run returns nil.
WgWait ==
    /\ srvpc = "wgWait"
    /\ controllers = {}
    /\ Return("nil")
    /\ UNCHANGED <<ctxDone, sigs, sigHandler, signalsSent, apiConfig,
                   originalConfig, config, registered, informer, events,
                   controllers, workers, objectStoreInit, blockStoreInit>>
    /\ UNCHANGED <<bvars, cvars, uvars>>

\* line 470: the signal channel holds one signal.
SigBuffer == 1

\* SIGINT or SIGTERM is sent to the process after signal.Notify: it is put
\* into the channel, or dropped when the channel is full.
Signal ==
    /\ Running
    /\ sigHandler # "none"
    /\ signalsSent < MaxSignals
    /\ signalsSent' = signalsSent + 1
    /\ sigs' = IF sigs < SigBuffer THEN sigs + 1 ELSE sigs
    /\ UNCHANGED <<srvpc, ctxDone, sigHandler, apiConfig, originalConfig, config,
                   registered, informer, events, controllers, workers, objectStoreInit,
                   blockStoreInit, runResult, cleaned>>
    /\ UNCHANGED <<bvars, cvars, uvars>>

\* Somebody creates the Config object 'default'.
ConfigCreate ==
    /\ Running
    /\ ~apiConfig.exists
    /\ apiConfig' \in Configs
    /\ UNCHANGED <<srvpc, ctxDone, sigs, sigHandler, signalsSent, originalConfig,
                   config, registered, informer, events, controllers, workers,
                   objectStoreInit, blockStoreInit, runResult, cleaned>>
    /\ UNCHANGED <<bvars, cvars, uvars>>

\* An object as a watch delivers it: Kind and APIVersion are set (comment
\* at lines 449-453).
Typed(c) == [c EXCEPT !.kind = "Config", !.apiVersion = "ark.heptio.com/v1"]

\* The object without its Kind and APIVersion
Untyped(c) == [c EXCEPT !.kind = "", !.apiVersion = ""]

\* Somebody changes the content of the Config object; a running informer
\* sees the update.
ConfigChange ==
    /\ Running
    /\ apiConfig.exists
    /\ apiConfig.gen < MaxConfigChanges
    /\ apiConfig' = [apiConfig EXCEPT !.gen = @ + 1]
    /\ events' = IF informer = "running" THEN Append(events, Typed(apiConfig'))
                 ELSE events
    /\ UNCHANGED <<srvpc, ctxDone, sigs, sigHandler, signalsSent, originalConfig,
                   config, registered, informer, controllers, workers, objectStoreInit,
                   blockStoreInit, runResult, cleaned>>
    /\ UNCHANGED <<bvars, cvars, uvars>>

\* The informer reports an update although the Config 'default' has not
\* changed since its last report (a resync), or an update of a Config of
\* another name.
InformerUpdate ==
    /\ Running
    /\ informer = "running"
    /\ apiConfig.exists
    /\ Len(events) < MaxConfigChanges
    /\ \E n \in {"default", "other"} :
          events' = Append(events, [Typed(apiConfig) EXCEPT !.name = n])
    /\ UNCHANGED <<srvpc, ctxDone, sigs, sigHandler, signalsSent, apiConfig,
                   originalConfig, config, registered, informer, controllers,
                   workers, objectStoreInit, blockStoreInit, runResult, cleaned>>
    /\ UNCHANGED <<bvars, cvars, uvars>>

\* Faulty variant, for comparison: watchConfig is given the copy the defaults were
\* applied to.
WatchedWorkingCopy(original, copy) == copy

\* line 326, s.watchConfig(originalConfig): the object the update handler
\* compares with is the one loadConfig returned, not the copy of line 323.
Watched(original, copy) == original

\* watchConfig's UpdateFunc, lines 440-465, called with the next update:
\* an update of a Config of another name is ignored; Kind and APIVersion
\* of the watched object are set to the update's, and the context is
\* cancelled when the objects then differ.
UpdateFunc ==
    /\ events # <<>>
    /\ registered
    /\ events' = Tail(events)
    /\ LET updated == Head(events)
           watched == Watched(originalConfig, config)
           patched == [watched EXCEPT !.kind = updated.kind,
                                      !.apiVersion = updated.apiVersion]
       IN IF updated.name # watched.name
          THEN UNCHANGED <<ctxDone, originalConfig>>
          ELSE /\ ctxDone' = IF patched # updated THEN TRUE ELSE ctxDone
               /\ originalConfig' = [originalConfig EXCEPT
                                       !.kind = updated.kind,
                                       !.apiVersion = updated.apiVersion]
    /\ UNCHANGED <<srvpc, sigs, sigHandler, signalsSent, apiConfig,
                   config, registered, informer, controllers, workers,
                   objectStoreInit, blockStoreInit, runResult, cleaned>>
    /\ UNCHANGED <<bvars, cvars, uvars>>

\* newServer has returned the server, lines 288-304; run is about to start.
InitServer ==
    /\ IdleBackup
    /\ IdleController
    /\ IdleTools
    /\ srvpc = "run"
    /\ ctxDone = FALSE
    /\ sigs = 0
    /\ sigHandler = "none"
    /\ signalsSent = 0
    /\ apiConfig = NoConfig
    /\ originalConfig = NoConfig
    /\ config = NoConfig
    /\ registered = FALSE
    /\ informer = "stopped"
    /\ events = <<>>
    /\ controllers = {}
    /\ workers = NotStarted
    /\ objectStoreInit = NoMap
    /\ blockStoreInit = NoMap
    /\ runResult = "none"
    /\ cleaned = FALSE

\* The steps of the goroutine that executes run.
RunStep ==
    \/ HandleShutdownSignals
    \/ EnsureArkNamespace
    \/ LoadConfig
    \/ LoadConfigSleep
    \/ WatchConfig
    \/ InitBackupService
    \/ InitSnapshotService
    \/ InitResticManager
    \/ StartControllers
    \/ StartInformers
    \/ WaitForCacheSync
    \/ WaitCtxDone
    \/ WgWait

NextServer ==
    \/ RunStep
    \/ SignalReceived
    \/ InformerSync
    \/ UpdateFunc
    \/ ControllerReturns
    \/ Signal
    \/ ConfigCreate
    \/ ConfigChange

\* Every goroutine of the server keeps running; signals and changes of the
\* Config object happen or not.
SpecServer ==
    /\ InitServer
    /\ [][NextServer]_vars
    /\ WF_vars(RunStep)
    /\ WF_vars(SignalReceived)
    /\ WF_vars(InformerSync)
    /\ WF_vars(UpdateFunc)
    /\ WF_vars(ControllerReturns)

Terminated == srvpc \in {"returned", "exited"}

\* C13: after SIGINT or SIGTERM was received, also while start-up still
\* polls for the Config object, the root context is cancelled and, the
\* controllers returning once it is, server.run eventually returns.
C13_SignalEndsRun == (signalsSent > 0) ~> Terminated

\* C14: a change of the content of the Config object made after the server
\* read it eventually cancels the root context, also when it is made after
\* loadConfig returned and before the shared informers are started.
C14_ConfigChangeCancels ==
    (originalConfig.exists /\ Untyped(apiConfig) # Untyped(originalConfig))
        ~> (ctxDone \/ Terminated)

\* Every provider-specific key of the map orig is in m with the same value.
PassedThrough(m, orig) == \A k \in ConfigKeys \ {"bucket"} : m[k] = orig[k]

\* C20: the map passed to Init of the object store and the map passed to
\* Init of the block store each hold the key bucket set to the configured
\* bucket name, and every provider-specific key of the Config unchanged.
C20_BothStoresGetBucket ==
    /\ objectStoreInit.called =>
          /\ objectStoreInit.config["bucket"] = originalConfig.bucket
          /\ PassedThrough(objectStoreInit.config, originalConfig.bsConfig)
    /\ blockStoreInit.called =>
          /\ blockStoreInit.config["bucket"] = originalConfig.bucket
          /\ PassedThrough(blockStoreInit.config, originalConfig.pvProvider.config)

\* C20 as the code has it: the object store's map holds the key bucket set
\* to the configured bucket name and the provider-specific keys unchanged;
\* the block store's map is the persistent volume provider's map as it is
\* in the Config, no bucket added.
C20_ObjectStoreGetsBucket ==
    /\ objectStoreInit.called =>
          /\ objectStoreInit.config["bucket"] = originalConfig.bucket
          /\ PassedThrough(objectStoreInit.config, originalConfig.bsConfig)
    /\ blockStoreInit.called =>
          blockStoreInit.config = originalConfig.pvProvider.config

\* Both stores were initialized; the Config's object store map named another
\* bucket and a region, the block store's map a region and no bucket.
C20_Witness ==
    /\ objectStoreInit.called
    /\ blockStoreInit.called
    /\ originalConfig.bsConfig["bucket"] = "b0"
    /\ objectStoreInit.config["region"] = "r1"
    /\ blockStoreInit.config["region"] = "r2"
    /\ blockStoreInit.config["bucket"] = Absent

(***************************************************************************)
(* Properties of the pod-volume-restore controller                         *)
(***************************************************************************)

\* C18: processing a queue item never modifies the PodVolumeRestore held by
\* the informer cache: phase and message are set on a deep copy and reach
\* the cluster through the patch only, on every path of processQueueItem.
C18_CacheNotMutated ==
    [][(ProcessStart \/ ProcessFinish) => cache' = cache]_vars

\* The worker has patched the object to InProgress and is inside
\* processRestore while the cache still holds the object as it was.
C18_Witness ==
    /\ worker.busy
    /\ pvr.phase = "InProgress"
    /\ cache.exists
    /\ cache.phase \in {"", "New"}
    /\ cache.rv < pvr.rv

\* An informer event put the key into the queue.
EnqueuedByEvent == (PVREvent \/ PodEvent) /\ PVRKey \in queue' /\ PVRKey \notin queue

\* C19, enqueueing: the controller on node NodeName enqueues the
\* PodVolumeRestore, on an event of the PodVolumeRestore or of the pod, only
\* if the pod is in the pod cache with spec.nodeName NodeName and the
\* PodVolumeRestore's phase is empty or New.
C19_EnqueueOnlyOwnNode ==
    [][EnqueuedByEvent =>
          /\ pod'.exists
          /\ pod'.nodeName = NodeName
          /\ cache'.phase \in {"", "New"}]_vars

\* C19: enqueueing as above and, in consequence, the restic restore never
\* runs for a pod that is scheduled on another node.
C19_RestoreOnlyOwnNode ==
    [][/\ EnqueuedByEvent =>
             /\ pod'.exists
             /\ pod'.nodeName = NodeName
             /\ cache'.phase \in {"", "New"}
       /\ ProcessFinish /\ runs' > runs => pod.nodeName = NodeName]_vars

\* The pod of the PodVolumeRestore is scheduled on the agent's node and
\* eligible for processing.
PodEligible == pod.exists /\ shouldProcessPod(pod)

\* C16: every PodVolumeRestore in phase New whose pod is scheduled on the
\* agent's node and eligible eventually reaches Completed or Failed, the
\* worker and the informer events being scheduled fairly, also when a
\* status patch fails transiently or the agent restarts while the object
\* is InProgress.
C16_NewReachesTerminal ==
    (pvr.exists /\ pvr.phase \in {"", "New"} /\ PodEligible)
       ~> (pvr.phase \in {"Completed", "Failed"} \/ ~PodEligible)

\* C17: when two writers patch the phase of the PodVolumeRestore, each from
\* the same observed version, at least one of the two patches is rejected:
\* the second writer's patch and a patch of the controller computed from
\* the same version are never both accepted.
C17_ConflictDetected ==
    peer.done => \A i \in 1..Len(writes) : writes[i].seen # peer.seen.rv

\* C15: running the reconcile twice yields the same final phase as running
\* it once: a run that ends after an earlier run has ended leaves the phase
\* the earlier run left.
C15_SecondRunSameResult ==
    \A i, j \in 1..Len(writes) :
       /\ i < j
       /\ writes[i].to \in {"Completed", "Failed"}
       /\ writes[j].to \in {"Completed", "Failed"}
       => writes[j].to = writes[i].to

\* ---------------------------------------------------------------------
\* C21.  A store is handed out, and a service built around it, only after
\* its Init returned no error: an empty provider name is rejected without
\* the plugin manager being contacted, a failed lookup and a failed Init
\* leave the server without that store, and the run that ended with one
\* of these errors built no service around the store that failed.
StoreErrors == {"name_err", "lookup_err", "init_err"}

InitialisedIfWrapped(s) == s.wrapped => (s.lookedUp /\ s.called /\ s.initOk)

C21_OnlyInitialisedStores ==
    /\ InitialisedIfWrapped(objectStoreInit)
    /\ InitialisedIfWrapped(blockStoreInit)
    /\ (config.exists /\ config.provider = "") => ~objectStoreInit.lookedUp
    /\ (config.exists /\ config.pvProvider.name = "") => ~blockStoreInit.lookedUp
    /\ srvpc = "initSnapshotService" => objectStoreInit.wrapped
    /\ runResult \in StoreErrors =>
          IF objectStoreInit.wrapped
          THEN ~blockStoreInit.wrapped
          ELSE blockStoreInit = NoMap

C21_Witness ==
    /\ runResult = "init_err"
    /\ objectStoreInit.wrapped
    /\ blockStoreInit.called
    /\ ~blockStoreInit.wrapped

\* ---------------------------------------------------------------------
\* C22.  Within one Backup the groups are processed in the order of
\* discoveryHelper.Resources(), each group once, and a group is started
\* only after the previous one has finished: the started groups are
\* 1, 2, ... in this order, an item is only ever in process for the group
\* started last, between two groups no item is in process, and when Backup
\* has returned every group has been started.
GroupEvents == SelectSeq(log, LAMBDA e : e.op = "group")

InGroup(key, g) == \E i \in 1..Len(GroupWork(g)) : GroupWork(g)[i] = key

C22_GroupsInOrder ==
    /\ \A i \in 1..Len(GroupEvents) : GroupEvents[i].n = i
    /\ stack # <<>> =>
          /\ pc = "walk"
          /\ Len(GroupEvents) = groupIdx
          /\ InGroup(stack[1].key, groupIdx)
    /\ pc = "groups" => (stack = <<>> /\ Len(GroupEvents) = groupIdx - 1)
    /\ pc = "done" => Len(GroupEvents) = Len(Groups)

C22_Witness ==
    /\ pc = "done"
    /\ Len(GroupEvents) = Len(Groups)
    /\ \E i, j \in 1..Len(tar) :
          i < j /\ InGroup(tar[i].key, 1) /\ InGroup(tar[j].key, 2)

\* ---------------------------------------------------------------------
\* C24.  Every entry of the archive is a regular file of mode 0755 whose
\* size is the length of its JSON body, and all entries carry the same
\* modification time, the time the backup started.
C24_EntryHeaders ==
    \A i \in 1..Len(tar) :
        /\ tar[i].hdr.typeflag = TypeReg
        /\ tar[i].hdr.mode = EntryMode
        /\ tar[i].hdr.size = Len(Marshal(tar[i].body))
        /\ tar[i].hdr.modTime = StartTime

\* The part of C24 that is not about the time: type, mode and size.
C24_RegularFiles ==
    \A i \in 1..Len(tar) :
        /\ tar[i].hdr.name = tar[i].name
        /\ tar[i].hdr.typeflag = TypeReg
        /\ tar[i].hdr.mode = EntryMode
        /\ tar[i].hdr.size = Len(Marshal(tar[i].body))
        /\ tar[i].complete => tar[i].bytes = Marshal(tar[i].body)

\* The modification times of the entries are the readings of the clock at
\* the writes: they never decrease along the archive.
C24_TimesOfWrites ==
    \A i, j \in 1..Len(tar) :
        i <= j => (StartTime <= tar[i].hdr.modTime
                   /\ tar[i].hdr.modTime <= tar[j].hdr.modTime
                   /\ tar[j].hdr.modTime <= now)

\* ---------------------------------------------------------------------
\* C23.  Two Backup runs over the same cluster state with equal spec and
\* the same actions produce the same set of entry names with the same
\* contents, whatever the order in which the items of a group are listed.
C23_SameArchive ==
    (first.done /\ pc = "done") => ArchiveEntries(tar) = first.entries

\* The same for two runs in which no call of a collaborator failed.
C23_SameArchiveNoFailure ==
    (first.done /\ pc = "done" /\ first.events \cap
        {Event(o, k, n) : o \in ErrorOps, k \in ClusterItems \cup {KeyP2}, n \in 0..2} = {})
    => ArchiveEntries(tar) = first.entries

(***************************************************************************)
(* handleResticBackup, called for one pod                                  *)
(***************************************************************************)

\* The number of names in the JSON array of the backup-volumes annotation
MaxVolumes == 2

\* A value of the annotation that starts with '[' and is not a JSON array of
\* strings
Malformed == "[v1"

\* The values of the annotation backup.ark.heptio.com/backup-volumes: not
\* set, one name, a JSON array of names, or malformed.
AnnotationValues ==
    {[kind |-> "empty", names |-> <<>>], [kind |-> "malformed", names |-> <<>>]}
    \cup {[kind |-> "plain", names |-> <<v>>] : v \in VolumeNames}
    \cup {[kind |-> "array", names |-> s] :
             s \in UNION {[1..n -> VolumeNames] : n \in 0..MaxVolumes}}

\* lines 306-314: the names the annotation's value is read as.  A value
\* that starts with '[' and does not unmarshal is taken as one name.
Backups(value) ==
    IF value.kind = "malformed" THEN <<Malformed>> ELSE value.names

backups == Backups(resticPod)

\* The key of a volume's errors
VolumeKey(v) == Key("volumes", "ns1", v)

\* Whether the iteration with that outcome ran restic's backup command to
\* its end: lines 408-417.
CommandRan(o) == o \in {"snapid_err", "ok"}

\* The number of backups restic has taken of volume v
BackupsTaken(v) ==
    Cardinality({i \in 1..Len(iterations) :
                    iterations[i].volume = v /\ CommandRan(iterations[i].outcome)})

\* lines 296-334: the pod is converted, the annotation read, the restic
\* repository of the namespace looked up and created if missing.
ResticStart ==
    /\ resticPc = "start"
    /\ \E o \in {"convert_err", "accessor_err", "repo_err", "ok"} :
          IF o = "convert_err"
          THEN /\ resticPc' = "done"
               /\ resticResult' = Err(o, NoKey)
               /\ UNCHANGED podAnnotations
          ELSE IF resticPod.kind = "empty"
          THEN /\ resticPc' = "done"
               /\ resticResult' = NilErr
               /\ UNCHANGED podAnnotations
          ELSE IF o = "ok"
          THEN /\ resticPc' = "loop"
               /\ podAnnotations' = annotations
               /\ UNCHANGED resticResult
          ELSE /\ resticPc' = "done"
               /\ resticResult' = Err(o, NoKey)
               /\ UNCHANGED podAnnotations
    /\ UNCHANGED <<resticPod, volIdx, resticErrs, annotations, iterations>>
    /\ UNCHANGED <<backup, env, pc, groupIdx, itemIdx, groupErrs, errs, result,
                   stack, backedUpItems, tar, volumeBackups, log, faults, rvars>>
    /\ UNCHANGED <<cvars, svars, uvars>>

\* How one iteration of the loop can end for a volume of the pod:
\* lines 364-425.
VolumeOutcomes(v) ==
    {"list_err", "no_ds_pod", "convert_err", "exec_err", "snapid_err", "ok"}
    \cup (IF v = "v2" THEN {"pvc_err"} ELSE {})

\* lines 336-426: one iteration of the loop over backups.
ResticVolume ==
    /\ resticPc = "loop"
    /\ volIdx <= Len(backups)
    /\ LET v == backups[volIdx] IN
       \E o \in IF v \in PodVolumes THEN VolumeOutcomes(v) ELSE {"no_volume"} :
          /\ iterations' = Append(iterations, [volume |-> v, outcome |-> o])
          /\ IF o \in {"list_err", "convert_err"}
             THEN /\ resticPc' = "done"
                  /\ resticResult' = Err(o, VolumeKey(v))
                  /\ UNCHANGED <<volIdx, resticErrs, podAnnotations>>
             ELSE /\ volIdx' = volIdx + 1
                  /\ resticErrs' = IF o = "ok" THEN resticErrs
                                   ELSE Append(resticErrs, Err(o, VolumeKey(v)))
                  /\ podAnnotations' =
                        IF o = "ok"
                        THEN [podAnnotations EXCEPT ![v] = BackupsTaken(v) + 1]
                        ELSE podAnnotations
                  /\ UNCHANGED <<resticPc, resticResult>>
    /\ UNCHANGED <<resticPod, annotations>>
    /\ UNCHANGED <<backup, env, pc, groupIdx, itemIdx, groupErrs, errs, result,
                   stack, backedUpItems, tar, volumeBackups, log, faults, rvars>>
    /\ UNCHANGED <<cvars, svars, uvars>>

\* lines 428-430: the annotations are set on the pod and the aggregate of
\* the errors is returned.
ResticReturn ==
    /\ resticPc = "loop"
    /\ volIdx > Len(backups)
    /\ annotations' = podAnnotations
    /\ resticResult' = NewAggregate(resticErrs)
    /\ resticPc' = "done"
    /\ UNCHANGED <<resticPod, volIdx, resticErrs, podAnnotations, iterations>>
    /\ UNCHANGED <<backup, env, pc, groupIdx, itemIdx, groupErrs, errs, result,
                   stack, backedUpItems, tar, volumeBackups, log, faults, rvars>>
    /\ UNCHANGED <<cvars, svars, uvars>>

\* handleResticBackup is called for a pod with some value of the annotation.
InitRestic ==
    /\ IdleWalk
    /\ IdleController
    /\ IdleServer
    /\ IdleTools
    /\ resticPod \in AnnotationValues
    /\ resticPc = "start"
    /\ volIdx = 1
    /\ resticErrs = <<>>
    /\ podAnnotations = NoAnnotations
    /\ annotations = NoAnnotations
    /\ resticResult = NilErr
    /\ iterations = <<>>

NextRestic ==
    \/ ResticStart
    \/ ResticVolume
    \/ ResticReturn

\* One call of handleResticBackup
SpecRestic == InitRestic /\ [][NextRestic]_vars

\* ---------------------------------------------------------------------
\* C25.  After handleResticBackup the pod carries the snapshot annotation
\* of exactly the listed volumes whose backup command and snapshot lookup
\* both succeeded; the failure of one volume is in the returned aggregate
\* and the remaining volumes are processed all the same.
Succeeded(v) ==
    \E i \in 1..Len(iterations) :
        iterations[i].volume = v /\ iterations[i].outcome = "ok"

C25_AnnotatedIffSucceeded ==
    (resticPc = "done" /\ iterations # <<>>) =>
        \A v \in PodVolumes : annotations[v] # NoSnapshot <=> Succeeded(v)

\* The failures the claim lists: they are collected and the loop goes on.
ListedFailures == {"no_volume", "no_ds_pod", "pvc_err", "exec_err", "snapid_err"}

\* Where only these failures happen, C25 holds: every listed volume is
\* processed, the failures are the returned aggregate, in order, and the
\* pod is annotated for exactly the volumes that succeeded.
C25_ListedFailuresCollected ==
    (/\ resticPc = "done"
     /\ iterations # <<>>
     /\ \A i \in 1..Len(iterations) :
           iterations[i].outcome \in ListedFailures \cup {"ok"})
    => /\ Len(iterations) = Len(backups)
       /\ \A v \in PodVolumes : annotations[v] # NoSnapshot <=> Succeeded(v)
       /\ resticResult =
             NewAggregate(
                [i \in 1..Len(resticErrs) |->
                    LET fs == SelectSeq(iterations,
                                        LAMBDA it : it.outcome # "ok")
                    IN Err(fs[i].outcome, VolumeKey(fs[i].volume))])
       /\ Len(resticErrs) =
             Len(SelectSeq(iterations, LAMBDA it : it.outcome # "ok"))

\* ---------------------------------------------------------------------
\* C26.  For one backup and one pod restic takes at most one backup of a
\* volume, also when the annotation lists the volume twice.
C26_OneBackupPerVolume ==
    \A v \in PodVolumes : BackupsTaken(v) <= 1

(***************************************************************************)
(* The Azure loadConfigFromBytes                                           *)
(***************************************************************************)

\* A value of a key that is not a string (a list, a mapping)
NotString == "<not a string>"

\* The contents of a credentials file: empty, text that is no YAML mapping,
\* or a mapping whose keys hold a string, a non-string or are absent.
Contents ==
    {EmptyContents,
     [kind |-> "scalar", entries |-> [k \in ConfigFileKeys |-> Absent]]}
    \cup {[kind |-> "mapping", entries |-> e] :
             e \in [ConfigFileKeys -> {Absent, "a", "b", NotString}]}

\* line 64, yaml.Unmarshal(contents, &c): empty input leaves c as it is,
\* a mapping sets the fields of the keys it holds and fails at a value that
\* is no string, anything else fails.
Unmarshal(in, c) ==
    CASE in.kind = "empty" -> [c |-> c, err |-> Nil]
      [] in.kind = "scalar" ->
            [c |-> c, err |-> <<"error unmarshaling JSON">>]
      [] in.kind = "mapping" ->
            [c |-> [f \in ConfigFields |->
                      LET t == CHOOSE k \in ConfigFileKeys : FieldOf(k) = f
                      IN IF in.entries[t] \in {Absent, NotString} THEN c[f]
                         ELSE in.entries[t]],
             err |-> IF \E k \in ConfigFileKeys : in.entries[k] = NotString
                     THEN <<"error unmarshaling JSON">> ELSE Nil]

\* errors.Wrap(err, message): the message, then the cause
Wrap(err, message) == <<message, ": ">> \o err

\* Faulty variant, for comparison: what Unmarshal produced is returned as it is.
loadConfigFromBytesRaw(in) ==
    LET r == Unmarshal(in, ZeroConfig) IN [config |-> r.c, err |-> r.err]

\* lines 62-69
loadConfigFromBytes(in) ==
    LET r == Unmarshal(in, ZeroConfig)
    IN IF r.err # Nil
       THEN [config |-> ZeroConfig,
             err |-> Wrap(r.err, "error unmarshalling config")]
       ELSE [config |-> r.c, err |-> Nil]

\* loadConfigFromBytes is called with the contents.
LoadConfigFromBytes ==
    /\ ~loaded.done
    /\ LET r == loadConfigFromBytes(contents)
       IN loaded' = [done |-> TRUE, config |-> r.config, err |-> r.err]
    /\ UNCHANGED <<contents, options, keyBytes, cmdPc, cmdResult, repositoryKey>>
    /\ UNCHANGED <<bvars, cvars, svars, lvars>>

InitAzure ==
    /\ IdleBackup
    /\ IdleController
    /\ IdleServer
    /\ contents \in Contents
    /\ loaded = NotLoaded
    /\ options = NoOptions
    /\ keyBytes = <<>>
    /\ cmdPc = "idle"
    /\ cmdResult = ""
    /\ repositoryKey = <<>>
    /\ IdleLister

NextAzure == LoadConfigFromBytes

\* loadConfigFromBytes applied to every contents
SpecAzure == InitAzure /\ [][NextAzure]_vars

\* ---------------------------------------------------------------------
\* C28.  loadConfigFromBytes returns the zero clientConfig and no error for
\* empty input, a clientConfig whose seven fields are the values of the
\* seven keys for a well-formed input, and for input that does not
\* unmarshal the zero clientConfig and an error whose message begins with
\* "error unmarshalling config".
WellFormed(in) ==
    /\ in.kind = "mapping"
    /\ \A k \in ConfigFileKeys : in.entries[k] # NotString

Unmarshallable(in) == in.kind = "empty" \/ WellFormed(in)

C28_LoadConfigFromBytes ==
    loaded.done =>
        /\ contents.kind = "empty" =>
              (loaded.config = ZeroConfig /\ loaded.err = Nil)
        /\ WellFormed(contents) =>
              /\ loaded.err = Nil
              /\ \A k \in ConfigFileKeys :
                    contents.entries[k] # Absent =>
                       loaded.config[FieldOf(k)] = contents.entries[k]
              /\ \A k \in ConfigFileKeys :
                    contents.entries[k] = Absent => loaded.config[FieldOf(k)] = ""
        /\ ~Unmarshallable(contents) =>
              /\ loaded.config = ZeroConfig
              /\ loaded.err # Nil
              /\ Head(loaded.err) = "error unmarshalling config"

\* A full file was loaded: every key set, not all to the same value.
C28_Witness ==
    /\ loaded.done
    /\ \A k \in ConfigFileKeys : contents.entries[k] \in {"a", "b"}
    /\ contents.entries["client_id"] = "a"
    /\ contents.entries["client_secret"] = "b"
    /\ loaded.config.ClientID = "a"
    /\ loaded.config.ClientSecret = "b"

(***************************************************************************)
(* ark restic init-repository                                              *)
(***************************************************************************)

\* The largest --key-size given
MaxKeySize == 2

\* The files --key-file may name: one that holds a key, an empty one, one
\* that cannot be read.
KeyFiles == {"key.txt", "empty.txt", "missing.txt"}

\* ioutil.ReadFile: the bytes of the file
ReadFile(name) ==
    CASE name = "key.txt" -> [err |-> FALSE, data |-> <<"k1", "k2">>]
      [] name = "empty.txt" -> [err |-> FALSE, data |-> <<>>]
      [] OTHER -> [err |-> TRUE, data |-> <<>>]

\* []byte(s): the bytes of a string
Bytes(s) == IF s = "" THEN <<>> ELSE <<s>>

\* What rand.Read can fill a slice of n bytes with
RandomKeys(n) == [1..n -> {"r1", "r2"}]

\* The options after the flags are parsed
Options ==
    [KeyFile : KeyFiles \cup {""},
     KeyData : {"", "secret"},
     KeySize : -1..MaxKeySize]

\* lines 892-918, Complete.
Complete ==
    /\ cmdPc = "complete"
    /\ IF options.KeyFile # "" /\ options.KeyData # ""
       THEN /\ cmdResult' = "both_err"
            /\ cmdPc' = "done"
            /\ UNCHANGED keyBytes
       ELSE IF options.KeyFile = "" /\ options.KeyData = "" /\ options.KeySize < 1
       THEN /\ cmdResult' = "key_size_err"
            /\ cmdPc' = "done"
            /\ UNCHANGED keyBytes
       ELSE IF options.KeyFile # "" /\ ReadFile(options.KeyFile).err
       THEN /\ cmdResult' = "read_err"
            /\ cmdPc' = "done"
            /\ UNCHANGED keyBytes
       ELSE LET read == IF options.KeyFile # ""
                        THEN ReadFile(options.KeyFile).data
                        ELSE keyBytes
            IN IF Len(Bytes(options.KeyData)) = 0
               THEN IF options.KeySize < 0
                    THEN /\ cmdResult' = "panic"
                         /\ cmdPc' = "done"
                         /\ keyBytes' = read
                    ELSE /\ keyBytes' \in RandomKeys(options.KeySize)
                         /\ cmdPc' = "validate"
                         /\ UNCHANGED cmdResult
               ELSE /\ keyBytes' = read
                    /\ cmdPc' = "validate"
                    /\ UNCHANGED cmdResult
    /\ UNCHANGED <<contents, loaded, options, repositoryKey>>
    /\ UNCHANGED <<bvars, cvars, svars, lvars>>

\* lines 920-936, Validate.
Validate ==
    /\ cmdPc = "validate"
    /\ IF Len(keyBytes) = 0
       THEN cmdResult' = "key_required_err" /\ cmdPc' = "done"
       ELSE \E o \in {"client_err", "namespace_err", "ok"} :
               IF o = "ok" THEN cmdPc' = "run" /\ UNCHANGED cmdResult
               ELSE cmdResult' = o /\ cmdPc' = "done"
    /\ UNCHANGED <<contents, loaded, options, keyBytes, repositoryKey>>
    /\ UNCHANGED <<bvars, cvars, svars, lvars>>

\* lines 938-940, Run: restic.NewRepositoryKey stores keyBytes.
Run ==
    /\ cmdPc = "run"
    /\ \E ok \in BOOLEAN :
          IF ok THEN repositoryKey' = keyBytes /\ cmdResult' = "ok"
          ELSE cmdResult' = "store_err" /\ UNCHANGED repositoryKey
    /\ cmdPc' = "done"
    /\ UNCHANGED <<contents, loaded, options, keyBytes>>
    /\ UNCHANGED <<bvars, cvars, svars, lvars>>

InitCommand ==
    /\ IdleBackup
    /\ IdleController
    /\ IdleServer
    /\ contents = EmptyContents
    /\ loaded = NotLoaded
    /\ options \in Options
    /\ keyBytes = <<>>
    /\ cmdPc = "complete"
    /\ cmdResult = ""
    /\ repositoryKey = <<>>
    /\ IdleLister

NextCommand ==
    \/ Complete
    \/ Validate
    \/ Run

\* One run of ark restic init-repository
SpecCommand == InitCommand /\ [][NextCommand]_vars

\* ---------------------------------------------------------------------
\* C27.  init-repository stores as the repository's key the contents of
\* the file named by --key-file, or the value of --key-data, or a random
\* key of --key-size bytes, the last only when neither flag is given;
\* with both flags it ends with an error before any key is stored.  A key
\* that was given is there to be stored: the command does not end for want
\* of one.
C27_KeyAsGiven ==
    /\ (options.KeyFile # "" /\ options.KeyData # "") =>
          (repositoryKey = <<>> /\ cmdResult \in {"", "both_err"})
    /\ cmdResult = "ok" =>
          repositoryKey =
             (IF options.KeyFile # "" THEN ReadFile(options.KeyFile).data
              ELSE IF options.KeyData # "" THEN Bytes(options.KeyData)
              ELSE repositoryKey)
    /\ (cmdResult = "ok" /\ options.KeyFile = "" /\ options.KeyData = "") =>
          repositoryKey \in RandomKeys(options.KeySize)
    /\ (\/ options.KeyFile = "key.txt" /\ options.KeyData = ""
        \/ options.KeyFile = "" /\ options.KeyData # "") =>
          cmdResult \notin {"key_required_err", "panic"}

\* What holds of the key: with both flags nothing is stored, and a key that
\* is stored is a random one of --key-size bytes, whatever the flags.
C27_StoredKeyIsRandom ==
    /\ (options.KeyFile # "" /\ options.KeyData # "") =>
          (repositoryKey = <<>> /\ cmdResult \in {"", "both_err"})
    /\ repositoryKey # <<>> =>
          (options.KeyData = "" /\ repositoryKey \in RandomKeys(options.KeySize))
    /\ (cmdPc = "done" /\ options.KeyFile = "" /\ options.KeyData # "") =>
          cmdResult = "key_required_err"

\* ---------------------------------------------------------------------
\* C29.  On every path by which the server stops after newServer succeeded
\* (run returns normally, run returns a start-up error, the construction of
\* the backupper or the restorer fails fatally in runControllers) the
\* plugin manager's CleanupClients has been called.
C29_CleanupOnEveryStop == Terminated => cleaned

\* The same for the paths on which run returns: its deferred call runs.
C29_CleanupOnReturn == srvpc = "returned" => cleaned

\* ---------------------------------------------------------------------
\* C30.  A PodVolumeRestore is enqueued, on an event of it or of its pod,
\* only for a pod that has the restic init container running: the pod's
\* first init container is restic's and the first init container status is
\* Running.  A pod without a running restic init container never causes an
\* enqueue.
ResticInitRunning(p) ==
    /\ Len(p.initContainers) > 0
    /\ p.initContainers[1] = InitContainer
    /\ Len(p.initContainerStatuses) > 0
    /\ p.initContainerStatuses[1] = "running"

C30_EnqueueOnlyInitRunning ==
    [][EnqueuedByEvent => (pod'.exists /\ ResticInitRunning(pod'))]_vars

\* What the events do: the key is enqueued only for a pod whose restic init
\* container is not running.
C30_EnqueueOnlyNotRunning ==
    [][EnqueuedByEvent => (pod'.exists /\ ~ResticInitRunning(pod'))]_vars

(***************************************************************************)
(* C31: a step of processRestore that fails after the patch to InProgress  *)
(* ends in a patch to Failed with a message, and nil is returned; an error *)
(* is returned only for a failed status patch.                             *)
(***************************************************************************)

\* The status patches of processRestore: lines 255, 324 and 362
PatchOps == {"patch_InProgress", "patch_Failed", "patch_Completed"}

\* The last step of the last processRestore call
LastStep == restore.steps[Len(restore.steps)]

\* In the last processRestore call a step other than a status patch failed.
StepFailed ==
    \E i \in 1..Len(restore.steps) :
       /\ restore.steps[i].op \notin PatchOps
       /\ ~restore.steps[i].ok

\* C31: when the pod lookup, the volume directory lookup, the creation of
\* the credentials file, the restic restore command or the complete-restore
\* script fails, processRestore patches the PodVolumeRestore to phase
\* Failed with a non-empty message and returns nil, so that the key is not
\* queued again; it returns an error, and the key is queued again, exactly
\* when a status patch itself failed.
C31_FailureIsPatchedNotRetried ==
    [][(ProcessStart \/ ProcessFinish) =>
         /\ (ProcessFinish /\ StepFailed') =>
               /\ LastStep'.op = "patch_Failed"
               /\ LastStep'.ok =>
                     /\ pvr'.phase = "Failed"
                     /\ pvr'.message # ""
                     /\ restore'.returned = "nil"
                     /\ queue' = queue
         /\ restore'.returned = "err" =>
               /\ LastStep'.op \in PatchOps
               /\ ~LastStep'.ok
               /\ PVRKey \in queue'
         /\ (restore'.steps # <<>> /\ LastStep'.op \in PatchOps /\ ~LastStep'.ok)
               => restore'.returned = "err"]_vars

\* A step failed, the patch to Failed succeeded and nil was returned.
C31_Witness ==
    /\ StepFailed
    /\ restore.returned = "nil"
    /\ LastStep = Step("patch_Failed", TRUE)
    /\ pvr.phase = "Failed"
    /\ pvr.message # ""

(***************************************************************************)
(* C32: the order of the steps of processRestore                           *)
(***************************************************************************)

\* Step s was taken before position i of the last processRestore call.
Before(i, s) == \E j \in 1..(i - 1) : restore.steps[j] = s

\* C32: within a processRestore call the restic restore command is run
\* only after the patch to InProgress succeeded, the complete-restore
\* script only after the restic restore command succeeded, and the patch
\* to Completed is sent only after both succeeded.
C32_StepsInOrder ==
    \A i \in 1..Len(restore.steps) :
       LET op == restore.steps[i].op
       IN /\ op = "restic" => Before(i, Step("patch_InProgress", TRUE))
          /\ op = "script" => Before(i, Step("restic", TRUE))
          /\ op = "patch_Completed" =>
                /\ Before(i, Step("restic", TRUE))
                /\ Before(i, Step("script", TRUE))

\* A processRestore call ran both commands and patched Completed.
C32_Witness ==
    /\ restore.returned = "nil"
    /\ LastStep = Step("patch_Completed", TRUE)
    /\ Before(Len(restore.steps), Step("script", TRUE))
    /\ pvr.phase = "Completed"

(***************************************************************************)
(* C39: the temporary credentials file does not outlive processRestore     *)
(***************************************************************************)

ActionRuns(key, n) ==
    Cardinality({i \in 1..Len(log) :
                   log[i] \in {Event("action", key, n), Event("action_err", key, n)}})

\* backupItem was called for an item whose backupItem call is in progress.
CalledInProgress ==
    /\ Len(stack) > 1
    /\ \E i \in 1..(Len(stack) - 1) : stack[i].key = Top.key

\* No action is executed twice for an item, the calls in progress are for
\* different items except for a call that returns at once, and so the
\* depth of the recursion stays below the bound of the model.
AtMostOnce ==
    /\ \A key \in ClusterItems \cup {KeyP2} : \A n \in 1..Len(actions) :
          ActionRuns(key, n) <= 1
    /\ CalledInProgress => Top.pc = "return" /\ log[Len(log)].op = "skip_dup"
    /\ \A i, j \in 1..(Len(stack) - 1) : i # j => stack[i].key # stack[j].key
    /\ (InItem("additional") /\ Top.adds # <<>>) => Len(stack) < MaxDepth

\* C33: Backup, and with it every backupItem call, terminates although the
\* additional items of the actions form a cycle (pv1's action names p1 and
\* p1's action names pv1): the key is recorded before the actions run, the
\* call for an item in progress returns at once, and no action is executed
\* more than once for an item.
C33_BackupItemTerminates ==
    /\ []AtMostOnce
    /\ <>(pc \in {"done", "failed"} /\ stack = <<>>)

\* The cycle was followed: under pv1's call p1's action asked for pv1
\* again and that call returned without running anything.
C33_Witness ==
    /\ CalledInProgress
    /\ Top.pc = "return"
    /\ Top.key = KeyPv1
    /\ ActionRuns(KeyPv1, 2) + ActionRuns(KeyPv1, 1) >= 1

(***************************************************************************)
(* C34: what takePVSnapshot records in backup.Status.VolumeBackups         *)
(***************************************************************************)

\* C34: backup.Status.VolumeBackups has an entry for the persistent volume
\* exactly when CreateSnapshot and GetVolumeInfo both succeeded for it; the
\* entry holds the snapshot ID CreateSnapshot returned, the volume type and
\* IOPS GetVolumeInfo returned and the value of the volume's zone label.
\* When GetVolumeInfo fails after the snapshot was created, no entry is
\* recorded and the error is returned.
C34_VolumeBackupRecorded ==
    LET e == volumeBackups[KeyPv1.name]
        both == Logged("snapshot", KeyPv1) /\ ~Logged("volinfo_err", KeyPv1)
    IN /\ e # NoInfo <=> both
       /\ both => e = [snapshotID |-> CreateSnapshotCalls(KeyPv1.name),
                       volumeType |-> GetVolumeInfo.volumeType,
                       iops |-> GetVolumeInfo.iops,
                       zone |-> env.zoneLabel]
       /\ Logged("volinfo_err", KeyPv1) =>
             /\ Logged("snapshot", KeyPv1)
             /\ pc = "done" => InResult(Err("volinfo_err", KeyPv1))
             /\ (InItem("posthook") /\ Top.key = KeyPv1) =>
                   \E i \in 1..Len(Top.berrs) : Top.berrs[i] = Err("volinfo_err", KeyPv1)

\* The snapshot of a volume without a zone label was recorded.
C34_Witness ==
    /\ volumeBackups[KeyPv1.name] # NoInfo
    /\ volumeBackups[KeyPv1.name].zone = ""
    /\ volumeBackups[KeyPv1.name].snapshotID = 1
    /\ pc = "done"

(***************************************************************************)
(* C35: when no snapshot is taken for a persistent volume                  *)
(***************************************************************************)

\* The errors takePVSnapshot returns
SnapshotErrors == {"volid_err", "snapshot_err", "volinfo_err"}

\* The snapshot service is not configured, snapshotVolumes is false, or
\* GetVolumeID returned "" for the volume.
NoSnapshotCase ==
    \/ ~env.snapshotService
    \/ backup.snapshotVolumes = "false"
    \/ Logged("unsupported", KeyPv1)

\* backupItem is past lines 186-194 for the volume.
PastSnapshot == Logged("posthook", KeyPv1) \/ Logged("posthook_err", KeyPv1)

\* In the three cases nothing is snapshotted or recorded and no error
\* arises from the snapshot step, and the volume's entry is written when
\* nothing else fails; with snapshotVolumes unset and a snapshot service
\* the volume ID is asked for and, when there is one, CreateSnapshot called.
NoSnapshotNoError ==
    /\ NoSnapshotCase =>
          /\ CreateSnapshotCalls(KeyPv1.name) = 0
          /\ volumeBackups[KeyPv1.name] = NoInfo
          /\ \A i \in 1..Len(log) : log[i].op \notin SnapshotErrors
          /\ \A o \in SnapshotErrors : ~InResult(Err(o, KeyPv1))
          /\ (faults = 0 /\ Logged("posthook", KeyPv1)) =>
                \/ InItem("write") /\ Top.key = KeyPv1
                \/ Entries(KeyPv1) # {}
    /\ (env.snapshotService /\ backup.snapshotVolumes = "nil" /\ PastSnapshot) =>
          \/ Logged("volid_err", KeyPv1)
          \/ Logged("unsupported", KeyPv1)
          \/ CreateSnapshotCalls(KeyPv1.name) = 1

\* C35: no snapshot is taken and no error arises for a persistent volume
\* when the snapshot service is not configured, when snapshotVolumes is
\* false, or when the block store returns an empty volume ID; backupItem
\* goes on to the post hooks with the errors it had, and the volume is
\* still written to the archive.  With snapshotVolumes unset snapshots are
\* taken.
C35_NoSnapshotNoError ==
    /\ []NoSnapshotNoError
    /\ [][(Snapshot /\ Top.key = KeyPv1 /\ NoSnapshotCase') =>
             stack' = SetTop([Top EXCEPT !.pc = "posthook"])]_vars

\* The block store had no volume ID for the volume, and the volume was
\* written to the archive without a snapshot.
C35_Witness ==
    /\ Logged("unsupported", KeyPv1)
    /\ backup.snapshotVolumes = "nil"
    /\ Entries(KeyPv1) # {}
    /\ volumeBackups[KeyPv1.name] = NoInfo

(***************************************************************************)
(* C40: Backup when the hooks or the actions cannot be resolved            *)
(***************************************************************************)

\* The position in the log at which the writer was closed, 0 if it was not
ClosedAt(w) ==
    LET S == {i \in 1..Len(log) : log[i] = Event("close", Key("writer", "", w), 0)}
    IN IF S = {} THEN 0 ELSE CHOOSE i \in S : \A j \in S : i <= j

\* Each of the three writers was closed, once, the tar writer before the
\* gzip writer it writes to.
WritersClosed ==
    /\ Cardinality({i \in 1..Len(log) : log[i].op = "close"}) = 3
    /\ \A w \in {"gzippedLog", "tw", "gzippedData"} : ClosedAt(w) > 0
    /\ ClosedAt("tw") < ClosedAt("gzippedData")

\* C40: when getResourceHooks or resolveActions fails (an invalid label
\* selector, an error of AppliesTo), Backup returns that error before any
\* group is processed and before any entry is written, and the tar writer,
\* the archive's gzip writer and the log's gzip writer are closed all the
\* same, the tar writer before the gzip writer that wraps it.
C40_ResolveErrorReturned ==
    /\ ResolveError # NilErr =>
          /\ pc \in {"init", "failed"}
          /\ tar = <<>>
          /\ backedUpItems = {}
          /\ groupIdx = 1 /\ groupErrs = <<>> /\ errs = <<>>
          /\ \A i \in 1..Len(log) : log[i].op = "close"
    /\ pc = "failed" =>
          /\ ResolveError # NilErr
          /\ result = ResolveError
          /\ backup.hooks = "invalid" => result = Err("hooks_err", NoKey)
          /\ WritersClosed
    /\ pc = "done" => WritersClosed
    /\ pc \notin {"done", "failed"} => \A i \in 1..Len(log) : log[i].op # "close"

\* An action's AppliesTo failed: Backup returned the error and closed the
\* writers.
C40_Witness ==
    /\ pc = "failed"
    /\ result = Err("actions_err", NoKey)
    /\ WritersClosed
    /\ tar = <<>>

(***************************************************************************)
(* C36: the controllers runControllers starts                              *)
(***************************************************************************)

\* The controllers runControllers has started
Started == {c \in AllControllers : workers[c] > 0}

\* C36: in restore-only mode the backup, schedule, GC and backup-deletion
\* controllers are never started and the backup-sync, restore and
\* download-request controllers are; otherwise all seven controllers are
\* started; each controller is started with exactly one worker.
C36_ControllersStarted ==
    /\ config.restoreOnlyMode =>
          Started \cap {"backup", "schedule", "gc", "backupDeletion"} = {}
    /\ srvpc = "startInformers" =>
          Started = IF config.restoreOnlyMode
                    THEN {"backupSync", "restore", "downloadRequest"}
                    ELSE {"backupSync", "backup", "schedule", "gc",
                          "backupDeletion", "restore", "downloadRequest"}
    /\ Started # {} => "backupSync" \in Started
    /\ controllers \subseteq Started
    /\ \A c \in Started : workers[c] = 1

\* The server started in restore-only mode.
C36_Witness ==
    /\ config.restoreOnlyMode
    /\ srvpc = "startInformers"
    /\ Started = {"backupSync", "restore", "downloadRequest"}
    /\ controllers = Started

(***************************************************************************)
(* C37: Config updates that are not changes                                *)
(***************************************************************************)

\* The server and its Config watch when no signal is sent: besides changes
\* of the Config the informer reports updates that change nothing.
NextWatch ==
    \/ RunStep
    \/ InformerSync
    \/ UpdateFunc
    \/ ControllerReturns
    \/ ConfigCreate
    \/ ConfigChange
    \/ InformerUpdate

SpecWatch == InitServer /\ [][NextWatch]_vars

\* The update the handler is about to be called with is for a Config of
\* another name, or equals the Config loadConfig returned but for Kind and
\* APIVersion.
NotAChange ==
    \/ Head(events).name # originalConfig.name
    \/ Untyped(Head(events)) = Untyped(originalConfig)

\* C37: an update event does not cancel the root context when the updated
\* object has another name than the loaded Config or equals the Config as
\* it was loaded, before the defaults, apart from Kind and APIVersion; the
\* defaults are applied to a copy and so never make an unchanged update
\* look like a change.
C37_UnchangedUpdateIgnored ==
    [][(UpdateFunc /\ NotAChange) => ctxDone' = ctxDone]_vars

\* The handler was called with an unchanged update of the Config whose
\* working copy the defaults had changed, and the context is not cancelled.
C37_Witness ==
    /\ originalConfig.exists
    /\ originalConfig.kind = "Config"
    /\ Untyped(config) # Untyped(originalConfig)
    /\ events = <<>>
    /\ ~ctxDone

(***************************************************************************)
(* The plugin lister over gRPC: PluginListerGRPCServer.ListPlugins on the  *)
(* plugin's side, PluginListerGRPCClient.ListPlugins on the server's side  *)
(***************************************************************************)

\* The length of the plugin lists
MaxPlugins == 2

\* The plugin kinds of the runtime: object store, block store, backup item
\* action, restore item action.
allPluginKinds ==
    {"ObjectStore", "BlockStore", "BackupItemAction", "RestoreItemAction"}

\* PluginKind(s): the string as a value of the type PluginKind
PluginKind(s) == [PluginKind |-> s]

\* PluginKind.String()
KindString(k) == k.PluginKind

\* PluginIdentifier, lines 12-16
PluginIdentifier(command, kind, name) ==
    [command |-> command, kind |-> kind, name |-> name]

\* The identifiers an implementation may list; Bogus is a kind the runtime
\* does not know.
Identifiers ==
    {PluginIdentifier(c, PluginKind(k), n) :
        c \in {"/plugins/ark-aws", "/plugins/ark-gcp"},
        k \in allPluginKinds \cup {"Bogus"},
        n \in {"aws", "gcp"}}

RECURSIVE Lists(_)
\* The lists of identifiers of length n or less
Lists(n) ==
    IF n = 0 THEN {<<>>}
    ELSE Lists(n - 1) \cup
         {Append(l, id) : l \in {m \in Lists(n - 1) : Len(m) = n - 1},
                          id \in Identifiers}

\* What a ListPlugins returns: a list and no error, or no list and an error
Listed(plugins) == [err |-> "", plugins |-> plugins]

ListError(e) == [err |-> e, plugins |-> <<>>]

\* What the implementation's ListPlugins may return
Impls == {Listed(l) : l \in Lists(MaxPlugins)} \cup {ListError("impl_err")}

\* Faulty variant, for comparison: the server leaves out the identifiers of unknown
\* kind.
ServerListPluginsPartial(list) ==
    LET RECURSIVE Known(_)
        Known(l) ==
           IF l = <<>> THEN <<>>
           ELSE IF KindString(Head(l).kind) \in allPluginKinds
                THEN <<PluginIdentifier(Head(l).command, KindString(Head(l).kind),
                                        Head(l).name)>> \o Known(Tail(l))
                ELSE Known(Tail(l))
    IN IF list.err # "" THEN ListError(list.err) ELSE Listed(Known(list.plugins))

\* PluginListerGRPCServer.ListPlugins, lines 103-126: the implementation's
\* error is returned; the first identifier of unknown kind ends the call
\* with an error; otherwise each identifier is translated, the kind to its
\* string.
ServerListPlugins(list) ==
    IF list.err # "" THEN ListError(list.err)
    ELSE IF \E i \in 1..Len(list.plugins) :
               KindString(list.plugins[i].kind) \notin allPluginKinds
    THEN ListError("invalid plugin kind")
    ELSE Listed([i \in 1..Len(list.plugins) |->
                   PluginIdentifier(list.plugins[i].command,
                                    KindString(list.plugins[i].kind),
                                    list.plugins[i].name)])

\* PluginListerGRPCClient.ListPlugins, lines 63-85: the call's error is
\* returned with a nil list; the first identifier of unknown kind ends the
\* call with nil and an error; otherwise each identifier is translated, the
\* kind from its string.
ClientListPlugins(resp) ==
    IF resp.err # "" THEN ListError(resp.err)
    ELSE IF \E i \in 1..Len(resp.plugins) : resp.plugins[i].kind \notin allPluginKinds
    THEN ListError("invalid plugin kind")
    ELSE Listed([i \in 1..Len(resp.plugins) |->
                   PluginIdentifier(resp.plugins[i].command,
                                    PluginKind(resp.plugins[i].kind),
                                    resp.plugins[i].name)])

\* The gRPC server handles the request.
ServerList ==
    /\ listerPc = "server"
    /\ response' = ServerListPlugins(impl)
    /\ listerPc' = "client"
    /\ UNCHANGED <<impl, listed>>
    /\ UNCHANGED <<contents, loaded, options, keyBytes, cmdPc, cmdResult,
                   repositoryKey>>
    /\ UNCHANGED <<bvars, cvars, svars>>

\* The gRPC client receives the response, or the call fails on the way.
ClientList ==
    /\ listerPc = "client"
    /\ \E ok \in BOOLEAN :
          listed' = ClientListPlugins(IF ok THEN response ELSE ListError("rpc_err"))
    /\ listerPc' = "done"
    /\ UNCHANGED <<impl, response>>
    /\ UNCHANGED <<contents, loaded, options, keyBytes, cmdPc, cmdResult,
                   repositoryKey>>
    /\ UNCHANGED <<bvars, cvars, svars>>

InitLister ==
    /\ IdleBackup
    /\ IdleController
    /\ IdleServer
    /\ contents = EmptyContents
    /\ loaded = NotLoaded
    /\ options = NoOptions
    /\ keyBytes = <<>>
    /\ cmdPc = "idle"
    /\ cmdResult = ""
    /\ repositoryKey = <<>>
    /\ impl \in Impls
    /\ response = Listed(<<>>)
    /\ listed = Listed(<<>>)
    /\ listerPc = "server"

NextLister == ServerList \/ ClientList

\* ListPlugins through server and client, for every implementation
SpecLister == InitLister /\ [][NextLister]_vars

\* Every identifier of the implementation's list has a kind of the runtime.
AllKindsKnown ==
    \A i \in 1..Len(impl.plugins) : impl.plugins[i].kind.PluginKind \in allPluginKinds

\* C38: ListPlugins through the gRPC server and client returns exactly the
\* implementation's list of (command, kind, name), in the same order, when
\* every kind is known (unless the call itself fails); when the list holds
\* an unknown kind the call returns an error and no list, not a part of it.
C38_ListRoundTrip ==
    (listerPc = "done" /\ impl.err = "") =>
       IF AllKindsKnown
       THEN listed = impl \/ listed = ListError("rpc_err")
       ELSE listed.err # "" /\ listed.plugins = <<>>

\* A list of two plugins of known kinds came through.
C38_Witness ==
    /\ listerPc = "done"
    /\ Len(impl.plugins) = MaxPlugins
    /\ AllKindsKnown
    /\ listed.err = ""
    /\ listed.plugins = impl.plugins
    /\ impl.plugins[1] # impl.plugins[2]

====
